---- MODULE Spec2Model ----
(***************************************************************************)
(* A state-machine model of the ToyC compiler core: the linear-scan        *)
(* register allocator (src/src/reg_alloc.cpp), the liveness analysis and   *)
(* live-interval builder, the AST -> IR builder (src/src/ir_builder.cpp)   *)
(* and the RISC-V code generator (src/src/riscv_codegen.cpp).              *)
(*                                                                         *)
(* Every component has its own variables, initial predicate, next-state    *)
(* relation and specification; a component's specification keeps the       *)
(* variables of the other components at their idle values.                 *)
(***************************************************************************)
EXTENDS Integers, Sequences, FiniteSets, TLC

VARIABLES
    \* ---- LinearScanAllocator (reg_alloc.h:183-197) and its input ----
    raPc,                 \* position inside allocate(): "start", "scan", "collect", "done"
    paramVregs,           \* F.paramVregs: sequence of parameter VReg ids
    intervals,            \* builder.build(): vreg -> [start, end] of every non-empty interval
    sorted,               \* intervals of `sorted` that the scan loop has not visited yet
    active_,              \* active_: sequence of vregs, ordered by interval end
    freePhysRegs_,        \* freePhysRegs_
    isPhysRegUsed_,       \* isPhysRegUsed_: the set of ids whose flag is true
    allocatedVregs_,      \* allocatedVregs_
    ivPhysReg,            \* LiveInterval::physReg of every interval
    ivSpillSlot,          \* LiveInterval::spillSlot of every interval
    vregToPhys,           \* result_.vregToPhys
    vregToStack,          \* result_.vregToStack
    paramVregToLocation,  \* result_.paramVregToLocation
    nextSpillSlot_,       \* nextSpillSlot_
    usedPhysRegs,         \* result_.usedPhysRegs
    calleeSavedRegs,      \* result_.calleeSavedRegs
    caller,               \* what the caller of allocate() keeps of the calls that have
                          \* returned: the function and the AllocationResult
    \* ---- RISCVCodeGen (riscv_codegen.h:24-45) and its input ----
    cgPc,                 \* position inside generate(): "start", "function", "insts", "run", "done"
    module_,              \* module.functions: sequence of functions to generate
    funcAllocators_,      \* funcAllocators_: function name -> AllocationResult
    cgFunc,               \* index in module_ of the function being generated
    cgInst,               \* number of instructions of that function already lowered
    output_,              \* output_: the assembly text, a sequence of text fragments
    allocaOffsets_,       \* allocaOffsets_
    stackOffset_,         \* stackOffset_
    totalStackSize_,      \* totalStackSize_
    frameOverhead_,       \* frameOverhead_
    callSaveSize_,        \* callSaveSize_
    callArgAreaSize_,     \* callArgAreaSize_
    spillTempCounter_,    \* spillTempCounter_ of the current function's allocator
    lastDefRegName_,      \* lastDefRegName_
    cmpMap_,              \* cmpMap_: VReg of an ICmp -> CmpInfo (pred, lhsReg, rhsReg)
    \* ---- the RV32 machine that runs the generated text ----
    regs,                 \* register name -> value
    mem,                  \* address -> word
    ip,                   \* position in output_ of the next line to run, 0 when not running
    entry,                \* regs and mem when the function was entered (kept for the
                          \* properties; the machine has no such thing)
    \* ---- LivenessAnalysis and LiveIntervalBuilder (reg_alloc.cpp:152-343) ----
    laPc,                 \* position inside allocate(): "cfg", "usedef", "rpo", "solve", ...
    F,                    \* the function under analysis
    succs,                \* BasicBlock::succs of every block, as block numbers
    useSet,               \* BasicBlock::useSet of every block
    defSet,               \* BasicBlock::defSet of every block
    liveIn,               \* BasicBlock::liveIn of every block
    liveOut,              \* BasicBlock::liveOut of every block
    rpoOrder,             \* F.rpoOrder, as block numbers
    liveIntervals,        \* builder.build(): vreg -> ranges of every non-empty interval
    \* ---- IRBuilder (ir_builder.h:20-36) and its input ----
    ibPc,                 \* position inside generateLLVMIR() and the IRParser that reads
                          \* its text: "start", "function", "done", "ir", "parsed"
    funcs,                \* funcs: the FuncDefs of the program
    mod,                  \* mod: the functions of the module under construction
    irBuilder,            \* the members of the IRBuilder and the blocks of *currentFunc_
    llvmIR,               \* the IR text, a sequence of lines
    parsed                \* the Module that IRParser::parseModule returned

raVars == <<raPc, paramVregs, intervals, sorted, active_, freePhysRegs_,
            isPhysRegUsed_, allocatedVregs_, ivPhysReg, ivSpillSlot, vregToPhys,
            vregToStack, paramVregToLocation, nextSpillSlot_, usedPhysRegs,
            calleeSavedRegs, caller>>

cgVars == <<cgPc, module_, funcAllocators_, cgFunc, cgInst, output_, allocaOffsets_,
            stackOffset_, totalStackSize_, frameOverhead_, callSaveSize_,
            callArgAreaSize_, spillTempCounter_, lastDefRegName_, cmpMap_, regs, mem,
            ip, entry>>

laVars == <<laPc, F, succs, useSet, defSet, liveIn, liveOut, rpoOrder, liveIntervals>>

ibVars == <<ibPc, funcs, mod, irBuilder, llvmIR, parsed>>

vars == <<raVars, cgVars, laVars, ibVars>>


(***************************************************************************)
(* Generic helpers                                                         *)
(***************************************************************************)
Min(a, b) == IF a < b THEN a ELSE b
Max(a, b) == IF a < b THEN b ELSE a

\* The empty map (std::unordered_map after construction or clear()).
EmptyMap == [x \in {} |-> 0]

\* m[k] = v of a std::map / std::unordered_map.
MapPut(m, k, v) == [x \in DOMAIN m \cup {k} |-> IF x = k THEN v ELSE m[x]]

\* m.erase(k).
MapErase(m, k) == [x \in DOMAIN m \ {k} |-> m[x]]

\* The values of a sequence.
Range(s) == {s[i] : i \in DOMAIN s}

(***************************************************************************)
(* Components that take no part in a specification stay idle               *)
(***************************************************************************)
\* No LinearScanAllocator is running.
AllocIdle ==
    /\ raPc = "idle"
    /\ paramVregs = <<>>
    /\ intervals = EmptyMap
    /\ sorted = {}
    /\ active_ = <<>>
    /\ freePhysRegs_ = {}
    /\ isPhysRegUsed_ = {}
    /\ allocatedVregs_ = {}
    /\ ivPhysReg = EmptyMap
    /\ ivSpillSlot = EmptyMap
    /\ vregToPhys = EmptyMap
    /\ vregToStack = EmptyMap
    /\ paramVregToLocation = EmptyMap
    /\ nextSpillSlot_ = 0
    /\ usedPhysRegs = {}
    /\ calleeSavedRegs = {}
    /\ caller = <<>>

\* No RISCVCodeGen is running.
CodeGenIdle ==
    /\ cgPc = "idle"
    /\ module_ = <<>>
    /\ funcAllocators_ = EmptyMap
    /\ cgFunc = 0
    /\ cgInst = 0
    /\ output_ = <<>>
    /\ allocaOffsets_ = EmptyMap
    /\ stackOffset_ = 0
    /\ totalStackSize_ = 0
    /\ frameOverhead_ = 0
    /\ callSaveSize_ = 0
    /\ callArgAreaSize_ = 0
    /\ spillTempCounter_ = FALSE
    /\ lastDefRegName_ = ""
    /\ cmpMap_ = EmptyMap
    /\ regs = EmptyMap
    /\ mem = EmptyMap
    /\ ip = 0
    /\ entry = EmptyMap

\* No liveness analysis is running.
LiveIdle ==
    /\ laPc = "idle"
    /\ F = EmptyMap
    /\ succs = <<>>
    /\ useSet = <<>>
    /\ defSet = <<>>
    /\ liveIn = <<>>
    /\ liveOut = <<>>
    /\ rpoOrder = <<>>
    /\ liveIntervals = EmptyMap

\* No IRBuilder is running.
BuildIdle ==
    /\ ibPc = "idle"
    /\ funcs = <<>>
    /\ mod = <<>>
    /\ irBuilder = EmptyMap
    /\ llvmIR = <<>>
    /\ parsed = <<>>

(***************************************************************************)
(* RegInfo: the RV32I register table                                       *)
(***************************************************************************)
NumPhysRegs == 32
PhysIds == 0 .. (NumPhysRegs - 1)

\* The reserved set with t0 left allocatable.
ReservedWithoutT0 == {0, 1, 2, 3, 4, 6, 8}

\* Registers constructed with reserved = true.
Reserved == {0, 1, 2, 3, 4, 5, 6, 8}

\* Registers constructed with callerSaved = true.
CallerSaved == {5, 6, 7} \cup (10 .. 17) \cup (28 .. 31)

\* Registers constructed with calleeSaved = true.
CalleeSaved == {9} \cup (18 .. 27)

\* PhysReg::priority of every register.
priority(r) ==
    IF r \in 10 .. 17 THEN r - 10
    ELSE IF r = 7 THEN 20
    ELSE IF r \in 28 .. 31 THEN r - 7
    ELSE IF r \in 18 .. 27 THEN r + 22
    ELSE IF r = 9 THEN 50
    ELSE 999

isReserved(id) == id \in Reserved
isCallerSaved(id) == id \in CallerSaved
isCalleeSaved(id) == id \in CalleeSaved

\* PhysRegComparator: priority ascending, then id ascending.
PhysRegComparator(a, b) ==
    IF priority(a) # priority(b) THEN priority(a) < priority(b) ELSE a < b

\* RegInfo::allocatableRegs: every register that is not reserved.
allocatableRegs == {r \in PhysIds : ~isReserved(r)}

\* The spill temporaries t0 and t1.
spillTempReg1_ == 5
spillTempReg2_ == 6
isSpillTempReg(regId) == regId = spillTempReg1_ \/ regId = spillTempReg2_

\* The number of parameters passed in registers (a0..a7 = x10..x17).
NumArgRegs == 8
FirstArgReg == 10

(***************************************************************************)
(* LinearScanAllocator: the functions given to allocate()                  *)
(*                                                                         *)
(* allocate() hands runLinearScan the non-empty live intervals of the      *)
(* function.  Parameters occupy VRegs 0..n-1 and, having no defining       *)
(* instruction, are live from position 0.  Every other VReg starts at the  *)
(* posDef of its own defining instruction, so their starts are distinct.   *)
(* The family below has n parameters, as many long-lived temporaries as    *)
(* there are registers left after parameter binding, and NumFree further   *)
(* temporaries that arrive when the register file is full.                 *)
(***************************************************************************)
MaxParams == 9
MaxLiveParams == 2
NumFree == 2

ParamCounts == {0, 1, MaxLiveParams, MaxParams}

\* Number of temporaries that fill the registers left free by n parameters.
NumFill(n) == Cardinality(allocatableRegs) - Min(n, NumArgRegs)

\* First position of the late temporaries, and a position after all their starts.
FreeBase == 2 * (Cardinality(allocatableRegs) + 2)
Horizon == FreeBase + 2 * NumFree + 2

\* Parameters that may be used by the function body.
LiveParamCandidates(n) == {i \in 0 .. (n - 1) : i < MaxLiveParams \/ i >= NumArgRegs}

\* The end of a parameter's interval: -1 (unused parameter, LiveInterval::end()
\* of an empty interval), an early end, or an end after every temporary.
ParamEndChoices(n) ==
    {pe \in [LiveParamCandidates(n) -> {-1, 1, Horizon + 1}] :
        \A i \in DOMAIN pe : i >= NumArgRegs => pe[i] # Horizon + 1}

FillEndChoices == {FreeBase + 1, Horizon}
FreeEndChoices(s) == {s + 1, s + 3, Horizon + 2}

FreeStart(k) == FreeBase + 2 * k

\* One end for each late temporary.
FreeEndFunctions ==
    {ce \in [0 .. (NumFree - 1) ->
                UNION {FreeEndChoices(FreeStart(k)) : k \in 0 .. (NumFree - 1)}] :
        \A k \in DOMAIN ce : ce[k] \in FreeEndChoices(FreeStart(k))}

InputIntervals(n, pe, fe, ce) ==
    LET nf == NumFill(n)
        P  == {i \in DOMAIN pe : pe[i] # -1}
        Fl == n .. (n + nf - 1)
        Fr == (n + nf) .. (n + nf + NumFree - 1)
    IN [v \in P \cup Fl \cup Fr |->
          IF v \in P THEN [start |-> 0, end |-> pe[v]]
          ELSE IF v \in Fl THEN [start |-> 2 * (v - n + 1), end |-> fe]
          ELSE [start |-> FreeStart(v - n - nf), end |-> ce[v - n - nf]]]

(***************************************************************************)
(* LinearScanAllocator: helpers                                            *)
(***************************************************************************)
ivStart(v) == intervals[v].start
ivEnd(v) == intervals[v].end

\* LiveRange::overlaps on the [start, end] spans of two intervals.
overlaps(a, b) == ~(ivEnd(a) < ivStart(b) \/ ivEnd(b) < ivStart(a))

\* active_ is ordered by end.
ActiveSorted(act) == \A i, j \in DOMAIN act : i < j => ivEnd(act[i]) <= ivEnd(act[j])

\* processParameters: the bindings of parameters 0..7 and of the stack parameters.
processParametersPhys(pv) ==
    [v \in {pv[i] : i \in {j \in DOMAIN pv : j - 1 < NumArgRegs}} |->
        FirstArgReg + ((CHOOSE i \in DOMAIN pv : pv[i] = v) - 1)]

processParametersStack(pv) ==
    [v \in {pv[i] : i \in {j \in DOMAIN pv : j - 1 >= NumArgRegs}} |->
        (((CHOOSE i \in DOMAIN pv : pv[i] = v) - 1) - NumArgRegs + 1) * 4]

processParametersLocation(pv) ==
    [v \in Range(pv) |->
        IF v \in DOMAIN processParametersPhys(pv)
        THEN processParametersPhys(pv)[v] ELSE processParametersStack(pv)[v]]

\* initializeFreeRegs: every allocatable register.
initializeFreeRegs == allocatableRegs

\* freePhysReg: give a register back, unless the id is negative or reserved.
freePhysReg(free, physId) ==
    IF physId >= 0 /\ ~isReserved(physId) THEN free \cup {physId} ELSE free

\* expireOldIntervals: the number of leading active intervals that end before curStart.
ExpireCount(act, curStart) ==
    Cardinality({i \in DOMAIN act : \A j \in 1 .. i : ivEnd(act[j]) < curStart})

\* expireOldIntervals: active_ after the loop.
expireActive(act, curStart) == SubSeq(act, ExpireCount(act, curStart) + 1, Len(act))

\* expireOldIntervals: freePhysRegs_ after the loop.
RECURSIVE expireFree(_, _, _, _)
expireFree(act, free, phys, k) ==
    IF k = 0 THEN free
    ELSE freePhysReg(expireFree(act, free, phys, k - 1), phys[act[k]])

\* insertActiveInterval: std::lower_bound by end, then insert.
insertActiveInterval(act, v) ==
    LET notLess == {i \in DOMAIN act : ~(ivEnd(act[i]) < ivEnd(v))}
        idx == IF notLess = {} THEN Len(act) + 1
               ELSE CHOOSE i \in notLess : \A j \in notLess : i <= j
    IN SubSeq(act, 1, idx - 1) \o <<v>> \o SubSeq(act, idx, Len(act))

\* std::max_element by end: the first of the intervals with the greatest end.
maxElement(act) ==
    CHOOSE i \in DOMAIN act :
        /\ \A j \in DOMAIN act : ivEnd(act[j]) <= ivEnd(act[i])
        /\ \A j \in 1 .. (i - 1) : ivEnd(act[j]) < ivEnd(act[i])

\* active_.erase(it).
eraseAt(act, i) == SubSeq(act, 1, i - 1) \o SubSeq(act, i + 1, Len(act))

\* allocateSpillSlot: the offset returned when n slots were handed out before.
allocateSpillSlot(n) == -(n + 1) * 4

\* allocatePhysReg: the first register of the free set in comparator order.
allocatePhysReg(free) ==
    CHOOSE r \in free : \A q \in free \ {r} : PhysRegComparator(r, q)

\* spillAtInterval, steal branch: the result maps after the victim is spilled
\* and its register handed to the current interval.
stealVregToPhysKeepVictim(v2p, spill, cur, physReg) == MapPut(v2p, cur, physReg)
stealVregToPhys(v2p, spill, cur, physReg) == MapPut(MapErase(v2p, spill), cur, physReg)
stealVregToStack(v2s, spill, slot) == MapPut(v2s, spill, slot)

\* getUsedPhysRegs / getCalleeSavedRegs.
getUsedPhysRegs(used) == {i \in PhysIds : i \in used}
getCalleeSavedRegs(used) == {i \in PhysIds : i \in used /\ isCalleeSaved(i)}

(***************************************************************************)
(* LinearScanAllocator: allocate()                                         *)
(***************************************************************************)
\* The allocator after its constructor, and a function to allocate.
AllocInit ==
    /\ raPc = "start"
    /\ \E n \in ParamCounts :
         \E pe \in ParamEndChoices(n), fe \in FillEndChoices :
           \E ce \in FreeEndFunctions :
             /\ paramVregs = [i \in 1 .. n |-> i - 1]
             /\ intervals = InputIntervals(n, pe, fe, ce)
    /\ sorted = {}
    /\ active_ = <<>>
    /\ freePhysRegs_ = initializeFreeRegs
    /\ isPhysRegUsed_ = {}
    /\ allocatedVregs_ = {}
    /\ ivPhysReg = [v \in DOMAIN intervals |-> -1]
    /\ ivSpillSlot = [v \in DOMAIN intervals |-> -1]
    /\ vregToPhys = EmptyMap
    /\ vregToStack = EmptyMap
    /\ paramVregToLocation = EmptyMap
    /\ nextSpillSlot_ = 0
    /\ usedPhysRegs = {}
    /\ calleeSavedRegs = {}
    /\ caller = <<>>
    /\ CodeGenIdle
    /\ LiveIdle
    /\ BuildIdle

\* allocate(), up to the first iteration of the scan loop: reset, bind the
\* parameters, build the intervals and sort them by start.
AllocateStart ==
    /\ raPc = "start"
    /\ raPc' = "scan"
    /\ active_' = <<>>
    /\ nextSpillSlot_' = 0
    /\ vregToPhys' = processParametersPhys(paramVregs)
    /\ vregToStack' = processParametersStack(paramVregs)
    /\ paramVregToLocation' = processParametersLocation(paramVregs)
    /\ isPhysRegUsed_' = isPhysRegUsed_ \cup {processParametersPhys(paramVregs)[v] :
                                               v \in DOMAIN processParametersPhys(paramVregs)}
    /\ freePhysRegs_' = initializeFreeRegs \ {processParametersPhys(paramVregs)[v] :
                                               v \in DOMAIN processParametersPhys(paramVregs)}
    /\ allocatedVregs_' = Range(paramVregs)
    /\ ivPhysReg' = [v \in DOMAIN intervals |-> -1]
    /\ ivSpillSlot' = [v \in DOMAIN intervals |-> -1]
    /\ sorted' = DOMAIN intervals
    /\ usedPhysRegs' = {}
    /\ calleeSavedRegs' = {}
    /\ UNCHANGED <<paramVregs, intervals>>
    /\ UNCHANGED <<caller, cgVars, laVars, ibVars>>

\* cur is the next interval of `sorted`: std::sort leaves the order of
\* intervals with equal starts unspecified.
IsNext(cur) ==
    /\ raPc = "scan"
    /\ cur \in sorted
    /\ \A o \in sorted : ivStart(cur) <= ivStart(o)

\* The state after expireOldIntervals(cur.start).
activeAfterExpire(cur) == expireActive(active_, ivStart(cur))
freeAfterExpire(cur) ==
    expireFree(active_, freePhysRegs_, ivPhysReg, ExpireCount(active_, ivStart(cur)))

\* Loop body, pre-allocated branch: a parameter is put into active_ when it
\* holds a register.
ScanPreallocated(cur) ==
    /\ IsNext(cur)
    /\ cur \in allocatedVregs_
    /\ active_' = IF cur \in DOMAIN vregToPhys
                  THEN insertActiveInterval(activeAfterExpire(cur), cur)
                  ELSE activeAfterExpire(cur)
    /\ freePhysRegs_' = freeAfterExpire(cur)
    /\ sorted' = sorted \ {cur}
    /\ UNCHANGED <<raPc, paramVregs, intervals, isPhysRegUsed_, allocatedVregs_,
                   ivPhysReg, ivSpillSlot, vregToPhys, vregToStack,
                   paramVregToLocation, nextSpillSlot_, usedPhysRegs, calleeSavedRegs>>
    /\ UNCHANGED <<caller, cgVars, laVars, ibVars>>

\* Loop body, allocatePhysicalReg branch.
ScanAllocate(cur) ==
    /\ IsNext(cur)
    /\ cur \notin allocatedVregs_
    /\ freeAfterExpire(cur) # {}
    /\ LET physReg == allocatePhysReg(freeAfterExpire(cur))
       IN /\ freePhysRegs_' = freeAfterExpire(cur) \ {physReg}
          /\ isPhysRegUsed_' = isPhysRegUsed_ \cup {physReg}
          /\ ivPhysReg' = [ivPhysReg EXCEPT ![cur] = physReg]
          /\ vregToPhys' = MapPut(vregToPhys, cur, physReg)
    /\ active_' = insertActiveInterval(activeAfterExpire(cur), cur)
    /\ allocatedVregs_' = allocatedVregs_ \cup {cur}
    /\ sorted' = sorted \ {cur}
    /\ UNCHANGED <<raPc, paramVregs, intervals, ivSpillSlot, vregToStack,
                   paramVregToLocation, nextSpillSlot_, usedPhysRegs, calleeSavedRegs>>
    /\ UNCHANGED <<caller, cgVars, laVars, ibVars>>

\* Loop body, spillAtInterval: the active interval with the latest end ends
\* after cur, so it is spilled and cur takes its register.
ScanSteal(cur) ==
    /\ IsNext(cur)
    /\ cur \notin allocatedVregs_
    /\ freeAfterExpire(cur) = {}
    /\ activeAfterExpire(cur) # <<>>
    /\ LET act == activeAfterExpire(cur)
           spillIt == maxElement(act)
           spill == act[spillIt]
           physReg == ivPhysReg[spill]
           slot == allocateSpillSlot(nextSpillSlot_)
       IN /\ ivEnd(spill) > ivEnd(cur)
          /\ ivPhysReg' = [ivPhysReg EXCEPT ![spill] = -1, ![cur] = physReg]
          /\ ivSpillSlot' = [ivSpillSlot EXCEPT ![spill] = slot]
          /\ vregToPhys' = stealVregToPhys(vregToPhys, spill, cur, physReg)
          /\ vregToStack' = stealVregToStack(vregToStack, spill, slot)
          /\ active_' = insertActiveInterval(eraseAt(act, spillIt), cur)
    /\ nextSpillSlot_' = nextSpillSlot_ + 1
    /\ freePhysRegs_' = freeAfterExpire(cur)
    /\ sorted' = sorted \ {cur}
    /\ UNCHANGED <<raPc, paramVregs, intervals, isPhysRegUsed_, allocatedVregs_,
                   paramVregToLocation, usedPhysRegs, calleeSavedRegs>>
    /\ UNCHANGED <<caller, cgVars, laVars, ibVars>>

\* Loop body, spillAtInterval: cur itself is spilled.
ScanSpillCurrent(cur) ==
    /\ IsNext(cur)
    /\ cur \notin allocatedVregs_
    /\ freeAfterExpire(cur) = {}
    /\ LET act == activeAfterExpire(cur)
       IN \/ act = <<>>
          \/ act # <<>> /\ ~(ivEnd(act[maxElement(act)]) > ivEnd(cur))
    /\ ivSpillSlot' = [ivSpillSlot EXCEPT ![cur] = allocateSpillSlot(nextSpillSlot_)]
    /\ vregToStack' = MapPut(vregToStack, cur, allocateSpillSlot(nextSpillSlot_))
    /\ nextSpillSlot_' = nextSpillSlot_ + 1
    /\ active_' = activeAfterExpire(cur)
    /\ freePhysRegs_' = freeAfterExpire(cur)
    /\ sorted' = sorted \ {cur}
    /\ UNCHANGED <<raPc, paramVregs, intervals, isPhysRegUsed_, allocatedVregs_,
                   ivPhysReg, vregToPhys, paramVregToLocation, usedPhysRegs,
                   calleeSavedRegs>>
    /\ UNCHANGED <<caller, cgVars, laVars, ibVars>>

\* allocate(), after the scan: collect the used registers and return.
AllocateReturn ==
    /\ raPc = "scan"
    /\ sorted = {}
    /\ raPc' = "done"
    /\ usedPhysRegs' = getUsedPhysRegs(isPhysRegUsed_)
    /\ calleeSavedRegs' = getCalleeSavedRegs(isPhysRegUsed_)
    /\ UNCHANGED <<paramVregs, intervals, sorted, active_, freePhysRegs_,
                   isPhysRegUsed_, allocatedVregs_, ivPhysReg, ivSpillSlot,
                   vregToPhys, vregToStack, paramVregToLocation, nextSpillSlot_>>
    /\ UNCHANGED <<caller, cgVars, laVars, ibVars>>

AllocNext ==
    \/ AllocateStart
    \/ \E cur \in DOMAIN intervals : ScanPreallocated(cur)
    \/ \E cur \in DOMAIN intervals : ScanAllocate(cur)
    \/ \E cur \in DOMAIN intervals : ScanSteal(cur)
    \/ \E cur \in DOMAIN intervals : ScanSpillCurrent(cur)
    \/ AllocateReturn

SpecAlloc == AllocInit /\ [][AllocNext]_vars

\* The AllocationResult that allocate() has returned.
result_ ==
    [vregToPhys |-> vregToPhys, vregToStack |-> vregToStack,
     usedPhysRegs |-> usedPhysRegs, calleeSavedRegs |-> calleeSavedRegs]

\* The most temporaries of a function that is allocated twice.
MaxTemps == 2

\* The functions that are allocated twice: at most one parameter, which is
\* unused, ends early or ends late, and up to MaxTemps temporaries that end
\* early or late.  No two of their intervals start at the same position, so
\* that the order of std::sort is the same in both calls.
ReuseFunctions ==
    LET late == 2 * MaxTemps + 3
    IN {[paramVregs |-> [i \in 1 .. n |-> i - 1],
         intervals |-> [v \in {i \in 0 .. n - 1 : pe # -1} \cup (n .. n + t - 1) |->
                          IF v < n THEN [start |-> 0, end |-> pe]
                          ELSE [start |-> 2 * (v - n + 1), end |-> te[v - n + 1]]]]
        : n \in {0, 1}, pe \in {-1, 1, late}, t \in 0 .. MaxTemps,
          te \in [1 .. MaxTemps -> {0, late}]}

\* The functions that the allocator is given between the two calls: n
\* parameters that end early, temporaries that fill the registers, late
\* temporaries that end early.
OtherFunctions ==
    {[paramVregs |-> [i \in 1 .. n |-> i - 1],
      intervals |-> InputIntervals(n, [i \in LiveParamCandidates(n) |-> 1], fe,
                                   [k \in 0 .. (NumFree - 1) |-> FreeStart(k) + 1])]
     : n \in ParamCounts, fe \in FillEndChoices}

\* A freshly constructed allocator, and the function that allocate() is
\* about to be called with.
ReuseInit ==
    /\ raPc = "start"
    /\ \E Fn \in ReuseFunctions :
          /\ paramVregs = Fn.paramVregs
          /\ intervals = Fn.intervals
    /\ sorted = {}
    /\ active_ = <<>>
    /\ freePhysRegs_ = initializeFreeRegs
    /\ isPhysRegUsed_ = {}
    /\ allocatedVregs_ = {}
    /\ ivPhysReg = [v \in DOMAIN intervals |-> -1]
    /\ ivSpillSlot = [v \in DOMAIN intervals |-> -1]
    /\ vregToPhys = EmptyMap
    /\ vregToStack = EmptyMap
    /\ paramVregToLocation = EmptyMap
    /\ nextSpillSlot_ = 0
    /\ usedPhysRegs = {}
    /\ calleeSavedRegs = {}
    /\ caller = <<>>
    /\ CodeGenIdle
    /\ LiveIdle
    /\ BuildIdle

\* allocate(F') is called on the allocator that has just returned: the
\* caller keeps the function and the result of the call that returned, and
\* the intervals that builder.build() will make are the ones of F'.
allocateOn(next) ==
    /\ raPc = "done"
    /\ raPc' = "start"
    /\ caller' = Append(caller, [paramVregs |-> paramVregs, intervals |-> intervals,
                                 result |-> result_])
    /\ paramVregs' = next.paramVregs
    /\ intervals' = next.intervals
    /\ ivPhysReg' = [v \in DOMAIN next.intervals |-> -1]
    /\ ivSpillSlot' = [v \in DOMAIN next.intervals |-> -1]
    /\ UNCHANGED <<sorted, active_, freePhysRegs_, isPhysRegUsed_, allocatedVregs_,
                   vregToPhys, vregToStack, paramVregToLocation, nextSpillSlot_,
                   usedPhysRegs, calleeSavedRegs>>
    /\ UNCHANGED <<cgVars, laVars, ibVars>>

\* The second call on the allocator: allocate(G) for another function G.
AllocateOther ==
    /\ Len(caller) = 0
    /\ \E G \in OtherFunctions : allocateOn(G)

\* The third call on the allocator: allocate(F) for the function of the
\* first call.
AllocateAgain ==
    /\ Len(caller) = 1
    /\ allocateOn([paramVregs |-> caller[1].paramVregs, intervals |-> caller[1].intervals])

ReuseNext ==
    \/ AllocNext
    \/ AllocateOther
    \/ AllocateAgain

SpecReuse == ReuseInit /\ [][ReuseNext]_vars

(***************************************************************************)
(* LinearScanAllocator: properties                                         *)
(***************************************************************************)
\* VRegs whose interval was in active_ and left it by expiry: they keep their
\* register in vregToPhys.
Expired == {v \in DOMAIN intervals \cap DOMAIN vregToPhys :
               v \notin sorted /\ v \notin Range(active_)}

\* VRegs that held a register and lost it to a later interval.
StolenFrom == {v \in DOMAIN intervals : ivSpillSlot[v] # -1 /\ v \in allocatedVregs_}

\* VRegs that were spilled when they were visited.
SpilledAtVisit == {v \in DOMAIN intervals : ivSpillSlot[v] # -1 /\ v \notin allocatedVregs_}

\* C1: in the result of allocate, two distinct VRegs whose [start, end] spans
\* overlap and that are both keys of vregToPhys have different registers.
C1_Exclusivity ==
    raPc = "done" =>
        \A a, b \in DOMAIN intervals :
            (a # b /\ overlaps(a, b) /\ a \in DOMAIN vregToPhys /\ b \in DOMAIN vregToPhys)
                => vregToPhys[a] # vregToPhys[b]

C6_ParametersStay ==
    raPc = "done" =>
        \A i \in DOMAIN paramVregs :
            LET v == paramVregs[i]
            IN /\ (i - 1 < NumArgRegs) =>
                    /\ v \in DOMAIN vregToPhys
                    /\ v \notin DOMAIN vregToStack
                    /\ vregToPhys[v] = FirstArgReg + (i - 1)
                    /\ paramVregToLocation[v] = vregToPhys[v]
               /\ (i - 1 >= NumArgRegs) =>
                    /\ v \in DOMAIN vregToStack
                    /\ v \notin DOMAIN vregToPhys
                    /\ vregToStack[v] = ((i - 1) - NumArgRegs + 1) * 4
                    /\ paramVregToLocation[v] = vregToStack[v]

\* C7: t0 and t1 are never in the free set and never a value of vregToPhys.
C7_SpillTempsReserved ==
    /\ spillTempReg1_ \notin freePhysRegs_
    /\ spillTempReg2_ \notin freePhysRegs_
    /\ \A v \in DOMAIN vregToPhys : ~isSpillTempReg(vregToPhys[v])

\* A finished allocation with a register allocated after an expiry gave
\* registers back to the free set, and with a spill.
C7_Witness ==
    /\ raPc = "done"
    /\ \E v \in Expired : vregToPhys[v] \in freePhysRegs_
    /\ \E v \in Range(active_) : v \notin Range(paramVregs) /\ ivPhysReg[v] \in allocatableRegs
    /\ StolenFrom \cup SpilledAtVisit # {}

(***************************************************************************)
(* The IR: operands and instructions (ir.h)                                *)
(***************************************************************************)
\* Operand::none(), vreg(id), imm(val), label(name), boolLit(val).
none == [kind |-> "None", value |-> 0, label |-> <<>>]
vreg(id) == [kind |-> "VReg", value |-> id, label |-> <<>>]
imm(val) == [kind |-> "Imm", value |-> val, label |-> <<>>]
label(name) == [kind |-> "Label", value |-> 0, label |-> name]
boolLit(val) == [kind |-> "BoolLit", value |-> IF val THEN 1 ELSE 0, label |-> <<>>]

\* An Instruction as its factory methods leave it: index is -1 until
\* assignInstrPositions numbers it, and align is 4 unless the caller of
\* makeAlloca, makeLoad or makeStore passes another.
Instruction(opcode, type, def, ops, cmpPred, callee) ==
    [opcode |-> opcode, type |-> type, def |-> def, ops |-> ops,
     cmpPred |-> cmpPred, callee |-> callee, index |-> -1, align |-> 4]

\* Instruction::defReg().
defReg(inst) == IF inst.def.kind = "VReg" THEN inst.def.value ELSE -1

(***************************************************************************)
(* Text: std::string as a sequence of fragments                            *)
(***************************************************************************)
\* A std::string is the sequence of the fragments it was concatenated from;
\* an identifier of the program is itself a sequence of fragments, so that
\* find() sees an identifier that contains another text.  std::to_string is
\* ToString.

\* std::string::find(pat): the first position of pat in text, 0 for npos.
find(text, pat) ==
    LET hits == {i \in 1 .. Len(text) - Len(pat) + 1 :
                    SubSeq(text, i, i + Len(pat) - 1) = pat}
    IN IF hits = {} THEN 0 ELSE CHOOSE i \in hits : \A j \in hits : i <= j

\* std::string::replace(pos, n, new).
replace(text, pos, n, new) ==
    SubSeq(text, 1, pos - 1) \o new \o SubSeq(text, Min(pos + n, Len(text) + 1), Len(text))

\* RISCVCodeGen::emit(line).
emit(line) == <<"    ">> \o line \o <<"\n">>

\* RegInfo::getRegName(id), for the ids of the table.
getRegName(id) ==
    <<"zero", "ra", "sp", "gp", "tp", "t0", "t1", "t2", "s0", "s1",
      "a0", "a1", "a2", "a3", "a4", "a5", "a6", "a7",
      "s2", "s3", "s4", "s5", "s6", "s7", "s8", "s9", "s10", "s11",
      "t3", "t4", "t5", "t6">>[id + 1]

\* The elements of a set of integers in ascending order (std::sort, or the
\* iteration order of a std::set<int>).
RECURSIVE SortedSeq(_)
SortedSeq(S) ==
    IF S = {} THEN <<>>
    ELSE LET m == CHOOSE x \in S : \A y \in S : x <= y
         IN <<m>> \o SortedSeq(S \ {m})

\* The concatenation of a sequence of texts.
RECURSIVE Concat(_)
Concat(ss) == IF ss = <<>> THEN <<>> ELSE Head(ss) \o Concat(Tail(ss))

(***************************************************************************)
(* RISCVCodeGen: operand resolution                                        *)
(***************************************************************************)
\* The function being generated; currentFunction_ is func.name.
func == module_[cgFunc]

\* funcAllocators_[currentFunction_]->getAllocationResult().
alloc == funcAllocators_[func.name]

\* LinearScanAllocator::allocateSpillTempReg(): the counter flips, then
\* selects t0 or t1.
allocateSpillTempReg(counter) ==
    [counter |-> ~counter,
     reg |-> IF ~counter THEN spillTempReg1_ ELSE spillTempReg2_]

\* spillSlotToSpOffset(slot).
spillSlotToSpOffset(slot) == callArgAreaSize_ + callSaveSize_ + ((-slot) - 4)

\* resolveUse(op): the text it emits, the register name it returns and the
\* counter it leaves.
resolveUse(op, counter) ==
    LET tmp == allocateSpillTempReg(counter)
        tmpName == getRegName(tmp.reg)
    IN IF op.kind \in {"Imm", "BoolLit"}
       THEN [out |-> emit(<<"li ", tmpName, ", ", ToString(op.value)>>),
             reg |-> tmpName, counter |-> tmp.counter]
       ELSE IF op.kind = "VReg"
       THEN IF op.value \in DOMAIN alloc.vregToPhys
            THEN [out |-> <<>>, reg |-> getRegName(alloc.vregToPhys[op.value]),
                  counter |-> counter]
            ELSE IF op.value \in DOMAIN alloc.vregToStack
            THEN LET slot == alloc.vregToStack[op.value]
                 IN [out |-> IF slot > 0
                             THEN emit(<<"lw ", tmpName, ", ", ToString(slot - 4), "(s0)">>)
                             ELSE emit(<<"lw ", tmpName, ", ",
                                         ToString(spillSlotToSpOffset(slot)), "(sp)">>),
                     reg |-> tmpName, counter |-> tmp.counter]
            ELSE [out |-> <<>>, reg |-> "a0", counter |-> counter]
       ELSE [out |-> <<>>, reg |-> "zero", counter |-> counter]

\* resolveDef(op): the register name it returns (and stores in
\* lastDefRegName_) and the counter it leaves.
resolveDef(op, counter) ==
    IF op.kind # "VReg" THEN [reg |-> "a0", counter |-> counter]
    ELSE IF op.value \in DOMAIN alloc.vregToPhys
    THEN [reg |-> getRegName(alloc.vregToPhys[op.value]), counter |-> counter]
    ELSE [reg |-> getRegName(allocateSpillTempReg(counter).reg),
          counter |-> allocateSpillTempReg(counter).counter]

\* spillDefIfNeeded(inst), with lastDefRegName_ = lastDef.
spillDefIfNeeded(inst, lastDef) ==
    LET dr == defReg(inst)
    IN IF dr < 0 THEN <<>>
       ELSE IF /\ dr \in DOMAIN alloc.vregToStack
               /\ alloc.vregToStack[dr] < 0
               /\ dr \notin DOMAIN allocaOffsets_
       THEN emit(<<"sw ", lastDef, ", ",
                   ToString(spillSlotToSpOffset(alloc.vregToStack[dr])), "(sp)">>)
       ELSE <<>>

(***************************************************************************)
(* RISCVCodeGen: genCall, genRet, genAlloca                                *)
(***************************************************************************)
\* genCall keeps the def's register out of savedRegs; the variant saves and
\* restores it like every other caller-saved register.
savedRegsWithDef(inst) ==
    SortedSeq({alloc.vregToPhys[v] : v \in DOMAIN alloc.vregToPhys}
              \cap {r \in PhysIds : isCallerSaved(r) /\ ~isSpillTempReg(r)})

\* genCall: savedRegs after std::sort.  defPhysReg is the register of the
\* call's def, -1 when it has none.
savedRegs(inst) ==
    LET defPhysReg == IF defReg(inst) \in DOMAIN alloc.vregToPhys
                      THEN alloc.vregToPhys[defReg(inst)]
                      ELSE -1
    IN SortedSeq({alloc.vregToPhys[v] : v \in DOMAIN alloc.vregToPhys}
                 \cap {r \in PhysIds : /\ isCallerSaved(r)
                                       /\ ~isSpillTempReg(r)
                                       /\ r # defPhysReg})

\* genCall: the stack-argument loop from argument i on (counted from 0), with
\* regToSaveOffset = r2s: its text and the counter it leaves.
RECURSIVE stackArgs(_, _, _, _)
stackArgs(ops, i, r2s, counter) ==
    IF i >= Len(ops) THEN [out |-> <<>>, counter |-> counter]
    ELSE LET op == ops[i + 1]
             argOffset == (i - NumArgRegs) * 4
             tmp == allocateSpillTempReg(counter)
             tmpName == getRegName(tmp.reg)
             store == emit(<<"sw ", tmpName, ", ", ToString(argOffset), "(sp)">>)
             one ==
                IF op.kind = "Imm"
                THEN [out |-> emit(<<"li ", tmpName, ", ", ToString(op.value)>>) \o store,
                      counter |-> tmp.counter]
                ELSE IF op.kind # "VReg" THEN [out |-> <<>>, counter |-> counter]
                ELSE IF op.value \in DOMAIN alloc.vregToPhys
                THEN LET physReg == alloc.vregToPhys[op.value]
                     IN IF physReg \in DOMAIN r2s
                        THEN [out |-> emit(<<"lw ", tmpName, ", ",
                                             ToString(r2s[physReg]), "(sp)">>) \o store,
                              counter |-> tmp.counter]
                        ELSE [out |-> emit(<<"sw ", getRegName(physReg), ", ",
                                             ToString(argOffset), "(sp)">>),
                              counter |-> counter]
                ELSE IF op.value \in DOMAIN alloc.vregToStack
                THEN LET slot == alloc.vregToStack[op.value]
                     IN [out |-> (IF slot > 0
                                  THEN emit(<<"lw ", tmpName, ", ", ToString(slot - 4),
                                              "(s0)">>)
                                  ELSE emit(<<"lw ", tmpName, ", ",
                                              ToString(spillSlotToSpOffset(slot)), "(sp)">>))
                                 \o store,
                         counter |-> tmp.counter]
                ELSE [out |-> <<>>, counter |-> counter]
             rest == stackArgs(ops, i + 1, r2s, one.counter)
         IN [out |-> one.out \o rest.out, counter |-> rest.counter]

\* genCall: the register-argument loop.
regArgs(ops, r2s) ==
    LET regArg(op, i) ==
          LET target == "a" \o ToString(i)
          IN IF op.kind \in {"Imm", "BoolLit"}
             THEN emit(<<"li ", target, ", ", ToString(op.value)>>)
             ELSE IF op.kind # "VReg" THEN <<>>
             ELSE IF op.value \in DOMAIN alloc.vregToPhys
             THEN LET physReg == alloc.vregToPhys[op.value]
                  IN IF physReg \in DOMAIN r2s
                     THEN emit(<<"lw ", target, ", ", ToString(r2s[physReg]), "(sp)">>)
                     ELSE IF getRegName(physReg) # target
                     THEN emit(<<"mv ", target, ", ", getRegName(physReg)>>)
                     ELSE <<>>
             ELSE IF op.value \in DOMAIN alloc.vregToStack
             THEN emit(<<"lw ", target, ", ",
                         ToString(spillSlotToSpOffset(alloc.vregToStack[op.value])), "(sp)">>)
             ELSE <<>>
    IN Concat([k \in 1 .. Min(Len(ops), NumArgRegs) |-> regArg(ops[k], k - 1)])

\* genCall(inst): the text it emits, the counter and lastDefRegName_ it
\* leaves.
genCall(inst, counter) ==
    LET saved == savedRegs(inst)
        saveOffset(k) == callArgAreaSize_ + 4 * (k - 1)
        r2s == [r \in Range(saved) |-> saveOffset(CHOOSE k \in DOMAIN saved : saved[k] = r)]
        stk == stackArgs(inst.ops, NumArgRegs, r2s, counter)
        def == resolveDef(inst.def, stk.counter)
    IN [out |-> Concat([k \in DOMAIN saved |->
                          emit(<<"sw ", getRegName(saved[k]), ", ",
                                 ToString(saveOffset(k)), "(sp)">>)])
                \o stk.out
                \o regArgs(inst.ops, r2s)
                \o emit(<<"call ">> \o inst.callee)
                \o (IF def.reg # "a0" THEN emit(<<"mv ", def.reg, ", ", "a0">>) ELSE <<>>)
                \o Concat([k \in DOMAIN saved |->
                             emit(<<"lw ", getRegName(saved[k]), ", ",
                                    ToString(saveOffset(k)), "(sp)">>)])
                \o spillDefIfNeeded(inst, def.reg),
        counter |-> def.counter,
        lastDef |-> def.reg]

\* The placeholder lines of a function.
prologuePlaceholder(name) == <<"__PROLOGUE_PLACEHOLDER_">> \o name \o <<"__">>
epiloguePlaceholder(name) == <<"__EPILOGUE_PLACEHOLDER_">> \o name \o <<"__">>

\* genRet(inst): the text it emits and the counter it leaves.
genRet(inst, counter) ==
    LET val == IF inst.opcode = "Ret" /\ inst.ops # <<>>
               THEN resolveUse(inst.ops[1], counter)
               ELSE [out |-> <<>>, reg |-> "a0", counter |-> counter]
    IN [out |-> val.out
                \o (IF val.reg # "a0" THEN emit(<<"mv ", "a0", ", ", val.reg>>) ELSE <<>>)
                \o epiloguePlaceholder(func.name) \o <<"\n">>
                \o emit(<<"ret">>),
        counter |-> val.counter]

\* genAlloca(inst): stackOffset_ after the allocation.
genAlloca(inst) ==
    LET bumped == stackOffset_ + (IF inst.type = "i1" THEN 1 ELSE 4)
    IN IF bumped % 4 # 0 THEN bumped + (4 - (bumped % 4)) ELSE bumped

(***************************************************************************)
(* RISCVCodeGen: the stack frame                                           *)
(***************************************************************************)
\* calculateStackFrame(): totalStackSize_; (x + 15) & ~15 rounds a
\* non-negative x up to a multiple of 16.
calculateStackFrame ==
    LET slots == {-alloc.vregToStack[v] :
                    v \in {w \in DOMAIN alloc.vregToStack : alloc.vregToStack[w] < 0}}
        spillSize == IF slots = {} THEN 0 ELSE CHOOSE m \in slots : \A e \in slots : e <= m
        frameOverhead == 8 + Len(alloc.calleeSavedRegs) * 4
        total == stackOffset_ + frameOverhead + spillSize + callSaveSize_ + callArgAreaSize_
    IN ((total + 15) \div 16) * 16

\* updateStackFramePlaceholders(): the prologue for a frame of `total` bytes.
prologue(total) ==
    emit(<<"addi ", "sp", ", ", "sp", ", ", "-" \o ToString(total)>>)
    \o emit(<<"sw ", "ra", ", ", ToString(total - 4), "(sp)">>)
    \o emit(<<"sw ", "s0", ", ", ToString(total - 8), "(sp)">>)
    \o emit(<<"addi ", "s0", ", ", "sp", ", ", ToString(total)>>)
    \o Concat([k \in DOMAIN alloc.calleeSavedRegs |->
                 emit(<<"sw ", getRegName(alloc.calleeSavedRegs[k]), ", ",
                        ToString(total - 12 - 4 * (k - 1)), "(sp)">>)])

\* updateStackFramePlaceholders(): the epilogue.
epilogue(total) ==
    Concat([k \in DOMAIN alloc.calleeSavedRegs |->
              emit(<<"lw ", getRegName(alloc.calleeSavedRegs[k]), ", ",
                     ToString(total - 12 - 4 * (k - 1)), "(sp)">>)])
    \o emit(<<"lw ", "ra", ", ", ToString(total - 4), "(sp)">>)
    \o emit(<<"lw ", "s0", ", ", ToString(total - 8), "(sp)">>)
    \o emit(<<"addi ", "sp", ", ", "sp", ", ", ToString(total)>>)

\* updateStackFramePlaceholders(): the loop that replaces every epilogue
\* placeholder, each together with the character after it.
RECURSIVE replaceEpilogues(_, _)
replaceEpilogues(text, total) ==
    LET pos == find(text, epiloguePlaceholder(func.name))
    IN IF pos = 0 THEN text
       ELSE replaceEpilogues(
                replace(text, pos, Len(epiloguePlaceholder(func.name)) + 1, epilogue(total)),
                total)

\* updateStackFramePlaceholders(): the first prologue placeholder of the
\* text is replaced, together with the character after it; then the
\* epilogue placeholders.
updateStackFramePlaceholders(text, total) ==
    LET pos == find(text, prologuePlaceholder(func.name))
    IN replaceEpilogues(
           IF pos # 0
           THEN replace(text, pos, Len(prologuePlaceholder(func.name)) + 1, prologue(total))
           ELSE text,
           total)

(***************************************************************************)
(* RISCVCodeGen: generate() and generateFunction()                         *)
(***************************************************************************)
\* The loop of generateFunction over blocks and instructions, as the
\* sequence of things it emits: a label for every block but the first, and
\* the instructions of every block.
items(f) ==
    Concat([bi \in DOMAIN f.blocks |->
              (IF bi > 1 THEN <<[opcode |-> "label", name |-> f.blocks[bi].name]>> ELSE <<>>)
              \o f.blocks[bi].insts])

\* The next thing generateFunction emits.
nextItem ==
    IF cgPc = "insts" /\ cgInst < Len(items(func))
    THEN items(func)[cgInst + 1]
    ELSE [opcode |-> "end"]

\* generate(), up to the first function.
Generate ==
    /\ cgPc = "start"
    /\ output_' = <<"    .text", "\n">>
    /\ cgFunc' = 1
    /\ cgPc' = IF module_ = <<>> THEN "generated" ELSE "function"
    /\ UNCHANGED <<module_, funcAllocators_, cgInst, allocaOffsets_, stackOffset_,
                   totalStackSize_, frameOverhead_, callSaveSize_, callArgAreaSize_,
                   spillTempCounter_, lastDefRegName_, regs, mem, ip>>
    /\ UNCHANGED <<cmpMap_, entry, raVars, laVars, ibVars>>

\* generateFunction(), up to the loop over the blocks: the state is reset,
\* the save area gets one word for every caller-saved register of vregToPhys
\* that is no spill temporary, the outgoing argument area gets the stack
\* arguments of the call with the most arguments, and the label and the
\* prologue placeholder are written.
GenerateFunctionBegin ==
    /\ cgPc = "function"
    /\ cgPc' = "insts"
    /\ cgInst' = 0
    /\ allocaOffsets_' = EmptyMap
    /\ stackOffset_' = 0
    /\ totalStackSize_' = 0
    /\ frameOverhead_' = 8 + Len(alloc.calleeSavedRegs) * 4
    /\ callSaveSize_' =
          4 * Cardinality({alloc.vregToPhys[v] : v \in DOMAIN alloc.vregToPhys}
                          \cap {r \in PhysIds : isCallerSaved(r) /\ ~isSpillTempReg(r)})
    /\ LET extra == {Max(0, Len(items(func)[i].ops) - NumArgRegs) :
                       i \in {j \in DOMAIN items(func) : items(func)[j].opcode = "Call"}}
       IN callArgAreaSize_' =
             4 * (IF extra = {} THEN 0 ELSE CHOOSE m \in extra : \A e \in extra : e <= m)
    /\ spillTempCounter_' = FALSE
    /\ output_' = output_ \o <<"    .globl ">> \o func.name \o <<"\n">>
                          \o func.name \o <<":", "\n">>
                          \o prologuePlaceholder(func.name) \o <<"\n">>
    /\ UNCHANGED <<module_, funcAllocators_, cgFunc, lastDefRegName_, regs, mem, ip>>
    /\ cmpMap_' = EmptyMap
    /\ UNCHANGED <<entry, raVars, laVars, ibVars>>

\* generateFunction(): the label of a block.
GenBlockLabel ==
    /\ nextItem.opcode = "label"
    /\ output_' = output_ \o <<".">> \o func.name \o <<"_">> \o nextItem.name \o <<":", "\n">>
    /\ cgInst' = cgInst + 1
    /\ UNCHANGED <<cgPc, module_, funcAllocators_, cgFunc, allocaOffsets_, stackOffset_,
                   totalStackSize_, frameOverhead_, callSaveSize_, callArgAreaSize_,
                   spillTempCounter_, lastDefRegName_, regs, mem, ip>>
    /\ UNCHANGED <<cmpMap_, entry, raVars, laVars, ibVars>>

\* generateInst() on an Alloca: genAlloca.
GenAlloca ==
    /\ nextItem.opcode = "Alloca"
    /\ stackOffset_' = genAlloca(nextItem)
    /\ allocaOffsets_' = MapPut(allocaOffsets_, defReg(nextItem), genAlloca(nextItem))
    /\ cgInst' = cgInst + 1
    /\ UNCHANGED <<cgPc, module_, funcAllocators_, cgFunc, output_, totalStackSize_,
                   frameOverhead_, callSaveSize_, callArgAreaSize_, spillTempCounter_,
                   lastDefRegName_, regs, mem, ip>>
    /\ UNCHANGED <<cmpMap_, entry, raVars, laVars, ibVars>>

\* generateInst() on a Ret or RetVoid: genRet.
GenRet ==
    /\ nextItem.opcode \in {"Ret", "RetVoid"}
    /\ output_' = output_ \o genRet(nextItem, spillTempCounter_).out
    /\ spillTempCounter_' = genRet(nextItem, spillTempCounter_).counter
    /\ cgInst' = cgInst + 1
    /\ UNCHANGED <<cgPc, module_, funcAllocators_, cgFunc, allocaOffsets_, stackOffset_,
                   totalStackSize_, frameOverhead_, callSaveSize_, callArgAreaSize_,
                   lastDefRegName_, regs, mem, ip>>
    /\ UNCHANGED <<cmpMap_, entry, raVars, laVars, ibVars>>

\* generateInst() on a Call: genCall.
GenCall ==
    /\ nextItem.opcode = "Call"
    /\ output_' = output_ \o genCall(nextItem, spillTempCounter_).out
    /\ spillTempCounter_' = genCall(nextItem, spillTempCounter_).counter
    /\ lastDefRegName_' = genCall(nextItem, spillTempCounter_).lastDef
    /\ cgInst' = cgInst + 1
    /\ UNCHANGED <<cgPc, module_, funcAllocators_, cgFunc, allocaOffsets_, stackOffset_,
                   totalStackSize_, frameOverhead_, callSaveSize_, callArgAreaSize_,
                   regs, mem, ip>>
    /\ UNCHANGED <<cmpMap_, entry, raVars, laVars, ibVars>>

\* generateFunction(), after the loop: the frame size, the placeholders and
\* the .size line; then the next function of generate().  currentFunction_
\* keeps the name of the last function.
GenerateFunctionEnd ==
    /\ cgPc = "insts"
    /\ cgInst = Len(items(func))
    /\ totalStackSize_' = calculateStackFrame
    /\ output_' = updateStackFramePlaceholders(output_, calculateStackFrame)
                  \o <<"    .size ">> \o func.name \o <<",", " .-">> \o func.name
                  \o <<"\n", "\n">>
    /\ cgFunc' = IF cgFunc = Len(module_) THEN cgFunc ELSE cgFunc + 1
    /\ cgPc' = IF cgFunc = Len(module_) THEN "generated" ELSE "function"
    /\ UNCHANGED <<module_, funcAllocators_, cgInst, allocaOffsets_, stackOffset_,
                   frameOverhead_, callSaveSize_, callArgAreaSize_, spillTempCounter_,
                   lastDefRegName_, regs, mem, ip>>
    /\ UNCHANGED <<cmpMap_, entry, raVars, laVars, ibVars>>

(***************************************************************************)
(* Frame balance: modules of small functions                               *)
(***************************************************************************)
\* The most functions of a module.
MaxFuncs == 2

\* Function names: identifiers of the source language.  An identifier may
\* spell out the text of a placeholder.
FuncNames == {<<"f">>, <<"g">>, prologuePlaceholder(<<"f">>), epiloguePlaceholder(<<"f">>)}

\* An AllocationResult, as far as the code generator reads it.
AllocationResult(v2p, v2s, cs) ==
    [vregToPhys |-> v2p, vregToStack |-> v2s, calleeSavedRegs |-> cs]

\* A function and its blocks.
Function(name, blocks) ==
    [name |-> name,
     blocks |-> [b \in DOMAIN blocks |->
                   [name |-> IF b = 1 THEN <<"entry">> ELSE <<"b" \o ToString(b - 1)>>,
                    insts |-> blocks[b]]]]

\* The functions of the family, each with the allocation the allocator
\* computes for it: a0 for every VReg, whose intervals never overlap.  One
\* function returns a constant, one allocates three locals, one passes nine
\* constants (the ninth on the stack) and has a second block, one calls a
\* function of any name.  The last one also stands for a function with more
\* live values than caller-saved registers: its result is then in s1 (x9),
\* and calleeSavedRegs holds s1.
FrameFunctions(name) ==
    {[f |-> Function(name, <<<<Instruction("Ret", "i32", none, <<imm(0)>>, "EQ", <<>>)>>>>),
      a |-> AllocationResult(EmptyMap, EmptyMap, <<>>)],
     [f |-> Function(name, <<<<Instruction("Alloca", "i32", vreg(1), <<>>, "EQ", <<>>),
                              Instruction("Alloca", "i1", vreg(2), <<>>, "EQ", <<>>),
                              Instruction("Alloca", "i32", vreg(3), <<>>, "EQ", <<>>),
                              Instruction("RetVoid", "void", none, <<>>, "EQ", <<>>)>>>>),
      a |-> AllocationResult([v \in 1 .. 3 |-> FirstArgReg], EmptyMap, <<>>)],
     [f |-> Function(name, <<<<Instruction("Call", "i32", vreg(1),
                                           [k \in 1 .. NumArgRegs + 1 |-> imm(k)],
                                           "EQ", <<"g">>),
                              Instruction("Ret", "i32", none, <<vreg(1)>>, "EQ", <<>>)>>,
                            <<Instruction("Ret", "i32", none, <<imm(0)>>, "EQ", <<>>)>>>>),
      a |-> AllocationResult([v \in {1} |-> FirstArgReg], EmptyMap, <<>>)]}
    \cup {[f |-> Function(name, <<<<Instruction("Call", "i32", vreg(1), <<>>, "EQ", callee),
                                    Instruction("Ret", "i32", none, <<vreg(1)>>, "EQ",
                                                <<>>)>>>>),
           a |-> AllocationResult([v \in {1} |-> r], EmptyMap,
                                  SortedSeq({r} \cap CalleeSaved))]
          : callee \in FuncNames \ {name}, r \in {FirstArgReg, 9}}

\* The modules of the family: up to MaxFuncs functions with different names.
FrameModules ==
    UNION {{m \in [1 .. n -> UNION {FrameFunctions(nm) : nm \in FuncNames}] :
              \A i, j \in 1 .. n : i # j => m[i].f.name # m[j].f.name}
           : n \in 1 .. MaxFuncs}

\* A RISCVCodeGen after precomputeAllocations, about to generate module m.
CodeGenReady(m) ==
    /\ cgPc = "start"
    /\ module_ = [i \in DOMAIN m |-> m[i].f]
    /\ funcAllocators_ = [nm \in {m[i].f.name : i \in DOMAIN m} |->
                            m[CHOOSE i \in DOMAIN m : m[i].f.name = nm].a]
    /\ cgFunc = 0
    /\ cgInst = 0
    /\ output_ = <<>>
    /\ allocaOffsets_ = EmptyMap
    /\ stackOffset_ = 0
    /\ totalStackSize_ = 0
    /\ frameOverhead_ = 0
    /\ callSaveSize_ = 0
    /\ callArgAreaSize_ = 0
    /\ spillTempCounter_ = FALSE
    /\ lastDefRegName_ = ""
    /\ cmpMap_ = EmptyMap
    /\ regs = EmptyMap
    /\ mem = EmptyMap
    /\ ip = 0
    /\ entry = EmptyMap

FrameInit ==
    /\ \E m \in FrameModules : CodeGenReady(m)
    /\ AllocIdle
    /\ LiveIdle
    /\ BuildIdle

FrameNext ==
    \/ Generate
    \/ GenerateFunctionBegin
    \/ GenBlockLabel
    \/ GenAlloca
    \/ GenRet
    \/ GenCall
    \/ GenerateFunctionEnd

SpecFrame == FrameInit /\ [][FrameNext]_vars

\* C4 (P1, frame balance): once generate() has emitted the module, the text
\* of every function starts with a prologue that lowers sp, every ret follows
\* an epilogue that raises sp by the same number of bytes, that number is a
\* multiple of 16, and no placeholder line is left.
C4_FrameBalance ==
    LET textAt(p, t) == /\ p >= 1
                        /\ p + Len(t) - 1 <= Len(output_)
                        /\ SubSeq(output_, p, p + Len(t) - 1) = t
        spAdjust(n) == emit(<<"addi ", "sp", ", ", "sp", ", ", n>>)
        labelPos(name) == find(output_, <<"\n">> \o name \o <<":", "\n">>)
        isLowering(p) ==
            /\ textAt(p, <<"    ", "addi ", "sp", ", ", "sp", ", ">>)
            /\ p + 6 <= Len(output_)
            /\ output_[p + 6] \in {"-" \o ToString(n) : n \in 1 .. 64}
        retBalanced(p) ==
            \E k \in 1 .. 4 :
                /\ textAt(p - Len(spAdjust(ToString(16 * k))), spAdjust(ToString(16 * k)))
                /\ LET lowerings == {q \in 1 .. p : isLowering(q)}
                   IN /\ lowerings # {}
                      /\ output_[(CHOOSE q \in lowerings : \A r \in lowerings : r <= q) + 6]
                             = "-" \o ToString(16 * k)
    IN cgPc = "generated" =>
        /\ \A i \in DOMAIN module_ : \A p \in 1 .. Len(output_) :
             /\ ~textAt(p, <<"\n">> \o prologuePlaceholder(module_[i].name) \o <<"\n">>)
             /\ ~textAt(p, <<"\n">> \o epiloguePlaceholder(module_[i].name) \o <<"\n">>)
        /\ \A i \in DOMAIN module_ :
             labelPos(module_[i].name) # 0 =>
                 isLowering(labelPos(module_[i].name) + Len(module_[i].name) + 3)
        /\ \A p \in 1 .. Len(output_) : textAt(p, emit(<<"ret">>)) => retBalanced(p)

(***************************************************************************)
(* The RV32 machine: running the generated text                            *)
(***************************************************************************)
\* Values are tagged: "addr" for stack addresses, "init" for what a register
\* held on entry, "vreg" for the value of a VReg kept in memory, "imm" for a
\* constant, "ret" for what a callee returned, "clobber" for what a callee
\* left in a register it may overwrite, "junk" for memory nobody wrote.

\* The integer that std::to_string printed as s.
parseInt(s) == CHOOSE n \in -256 .. 256 : ToString(n) = s

\* The id of the register called name.
regId(name) == CHOOSE id \in PhysIds : getRegName(id) = name

\* The word at address a.
read(m, a) == IF a \in DOMAIN m THEN m[a] ELSE [tag |-> "junk", n |-> a]

\* The opcode of the line at position ip, and the position of the next line.
opcodeAtIp ==
    IF cgPc # "run" THEN "none"
    ELSE IF output_[ip] = "    " THEN output_[ip + 1]
    ELSE "directive"
nextLine == 1 + CHOOSE q \in ip .. Len(output_) :
                    output_[q] = "\n" /\ \A r \in ip .. q - 1 : output_[r] # "\n"

\* The address that the operand "off(base)" at token k denotes.
addressAt(k) ==
    regs[IF output_[k + 1] = "(sp)" THEN "sp" ELSE "s0"].n + parseInt(output_[k])

\* A directive or a label: nothing to run.
ExecDirective ==
    /\ opcodeAtIp = "directive"
    /\ ip' = nextLine
    /\ UNCHANGED <<cgPc, module_, funcAllocators_, cgFunc, cgInst, output_, allocaOffsets_,
                   stackOffset_, totalStackSize_, frameOverhead_, callSaveSize_,
                   callArgAreaSize_, spillTempCounter_, lastDefRegName_, regs, mem>>
    /\ UNCHANGED <<cmpMap_, entry, raVars, laVars, ibVars>>

\* addi rd, rs, imm; mv rd, rs; li rd, imm; lw rd, off(base).
ExecWriteReg ==
    /\ opcodeAtIp \in {"addi ", "mv ", "li ", "lw "}
    /\ regs' = [regs EXCEPT ![output_[ip + 2]] =
                   CASE opcodeAtIp = "addi " ->
                          [tag |-> "addr",
                           n |-> regs[output_[ip + 4]].n + parseInt(output_[ip + 6])]
                     [] opcodeAtIp = "mv " -> regs[output_[ip + 4]]
                     [] opcodeAtIp = "li " -> [tag |-> "imm", n |-> parseInt(output_[ip + 4])]
                     [] opcodeAtIp = "lw " -> read(mem, addressAt(ip + 4))]
    /\ ip' = nextLine
    /\ UNCHANGED <<cgPc, module_, funcAllocators_, cgFunc, cgInst, output_, allocaOffsets_,
                   stackOffset_, totalStackSize_, frameOverhead_, callSaveSize_,
                   callArgAreaSize_, spillTempCounter_, lastDefRegName_, mem>>
    /\ UNCHANGED <<cmpMap_, entry, raVars, laVars, ibVars>>

\* sw rs, off(base).
ExecSw ==
    /\ opcodeAtIp = "sw "
    /\ mem' = MapPut(mem, addressAt(ip + 4), regs[output_[ip + 2]])
    /\ ip' = nextLine
    /\ UNCHANGED <<cgPc, module_, funcAllocators_, cgFunc, cgInst, output_, allocaOffsets_,
                   stackOffset_, totalStackSize_, frameOverhead_, callSaveSize_,
                   callArgAreaSize_, spillTempCounter_, lastDefRegName_, regs>>
    /\ UNCHANGED <<cmpMap_, entry, raVars, laVars, ibVars>>

\* call f: the callee follows the calling convention.  It returns a value in
\* a0, may leave anything in ra and in the other caller-saved registers,
\* keeps the callee-saved registers and sp, and keeps the caller's frame.
ExecCall ==
    /\ opcodeAtIp = "call "
    /\ regs' = [r \in DOMAIN regs |->
                  IF r = "a0" THEN [tag |-> "ret", n |-> 0]
                  ELSE IF r = "ra" \/ isCallerSaved(regId(r))
                  THEN [tag |-> "clobber", n |-> regId(r)]
                  ELSE regs[r]]
    /\ mem' = [a \in {b \in DOMAIN mem : b >= regs["sp"].n} |-> mem[a]]
    /\ ip' = nextLine
    /\ UNCHANGED <<cgPc, module_, funcAllocators_, cgFunc, cgInst, output_, allocaOffsets_,
                   stackOffset_, totalStackSize_, frameOverhead_, callSaveSize_,
                   callArgAreaSize_, spillTempCounter_, lastDefRegName_>>
    /\ UNCHANGED <<cmpMap_, entry, raVars, laVars, ibVars>>

\* ret: the function returns to its caller.
ExecRet ==
    /\ opcodeAtIp = "ret"
    /\ cgPc' = "done"
    /\ UNCHANGED <<module_, funcAllocators_, cgFunc, cgInst, output_, allocaOffsets_,
                   stackOffset_, totalStackSize_, frameOverhead_, callSaveSize_,
                   callArgAreaSize_, spillTempCounter_, lastDefRegName_, regs, mem, ip>>
    /\ UNCHANGED <<cmpMap_, entry, raVars, laVars, ibVars>>

(***************************************************************************)
(* Call lowering: a function that makes one call                           *)
(***************************************************************************)
\* The temporaries of the caller besides the call's def, the most register
\* arguments drawn freely, and the most stack arguments.
PoolSize == 2
MaxFreeRegArgs == 2
MaxStackArgs == 1

\* The caller has n parameters: none, or one more than the argument
\* registers hold, so that its last parameter arrives on the stack.  Its
\* VRegs are the parameters, then the temporaries n .. n + PoolSize - 1,
\* then the def of the call.
DefVreg(n) == n + PoolSize

\* Where a temporary or the def may live: a0 or a1 when no parameter holds
\* them and t2 (x7) otherwise, s1 (x9), or one of the first two spill slots.
TempLocations(n) ==
    (IF n = 0 THEN {FirstArgReg, FirstArgReg + 1} ELSE {7})
    \cup {9} \cup {allocateSpillSlot(k) : k \in 0 .. 1}

\* The allocation results of the family: processParameters' binding of the
\* parameters, and different locations for the temporaries and the def, which
\* are all live at the call.
CallAllocations(n) ==
    {AllocationResult(
        [v \in DOMAIN processParametersPhys([i \in 1 .. n |-> i - 1])
               \cup {t \in n .. DefVreg(n) : loc[t] > 0} |->
            IF v < n THEN processParametersPhys([i \in 1 .. n |-> i - 1])[v] ELSE loc[v]],
        [v \in DOMAIN processParametersStack([i \in 1 .. n |-> i - 1])
               \cup {t \in n .. DefVreg(n) : loc[t] < 0} |->
            IF v < n THEN processParametersStack([i \in 1 .. n |-> i - 1])[v] ELSE loc[v]],
        SortedSeq({loc[t] : t \in n .. DefVreg(n)} \cap CalleeSaved))
     : loc \in {l \in [n .. DefVreg(n) -> TempLocations(n)] :
                  \A a, b \in n .. DefVreg(n) : a # b => l[a] # l[b]}}

\* What the caller may pass: a constant, a temporary, or one of its own
\* parameters (the first two and the one that arrived on the stack).
ArgChoices(n) ==
    {imm(5)} \cup {vreg(t) : t \in n .. n + PoolSize - 1}
    \cup (IF n = 0 THEN {} ELSE {vreg(0), vreg(1), vreg(NumArgRegs)})

\* The argument lists: a few free register arguments, or eight constants
\* followed by free stack arguments.
ArgLists(n) ==
    UNION {[1 .. k -> ArgChoices(n)] : k \in 0 .. MaxFreeRegArgs}
    \cup UNION {{[i \in 1 .. NumArgRegs + k |->
                    IF i <= NumArgRegs THEN imm(i) ELSE tail[i - NumArgRegs]]
                 : tail \in [1 .. k -> ArgChoices(n)]}
                : k \in 1 .. MaxStackArgs}

\* The caller is f: %def = call g(args); ret void.
CallInit ==
    /\ \E n \in {0, NumArgRegs + 1} :
         \E a \in CallAllocations(n), args \in ArgLists(n) :
            CodeGenReady(<<[f |-> Function(<<"f">>,
                                    <<<<Instruction("Call", "i32", vreg(DefVreg(n)), args,
                                                    "EQ", <<"g">>),
                                        Instruction("RetVoid", "void", none, <<>>, "EQ",
                                                    <<>>)>>>>),
                            a |-> a]>>)
    /\ AllocIdle
    /\ LiveIdle
    /\ BuildIdle

\* The call the machine runs.
theCall == module_[1].blocks[1].insts[1]

\* The machine when the caller is entered: sp is the caller's caller's, the
\* stack parameters lie at sp, sp+4, ..., and every spilled temporary is in
\* its slot of the frame the prologue is about to open.
RunStart ==
    /\ cgPc = "generated"
    /\ cgPc' = "run"
    /\ ip' = 1
    /\ regs' = [r \in {getRegName(id) : id \in PhysIds} |->
                  IF r = "sp" THEN [tag |-> "addr", n |-> 0]
                  ELSE [tag |-> "init", n |-> regId(r)]]
    /\ LET address(v) == IF alloc.vregToStack[v] > 0
                         THEN alloc.vregToStack[v] - 4
                         ELSE spillSlotToSpOffset(alloc.vregToStack[v]) - totalStackSize_
           inMemory == DOMAIN alloc.vregToStack \ {defReg(theCall)}
       IN mem' = [a \in {address(v) : v \in inMemory} |->
                    [tag |-> "vreg", n |-> CHOOSE v \in inMemory : address(v) = a]]
    /\ UNCHANGED <<module_, funcAllocators_, cgFunc, cgInst, output_, allocaOffsets_,
                   stackOffset_, totalStackSize_, frameOverhead_, callSaveSize_,
                   callArgAreaSize_, spillTempCounter_, lastDefRegName_>>
    /\ UNCHANGED <<cmpMap_, entry, raVars, laVars, ibVars>>

CallNext ==
    \/ Generate
    \/ GenerateFunctionBegin
    \/ GenRet
    \/ GenCall
    \/ GenerateFunctionEnd
    \/ RunStart
    \/ ExecDirective
    \/ ExecWriteReg
    \/ ExecSw
    \/ ExecCall
    \/ ExecRet

SpecCall == CallInit /\ [][CallNext]_vars

(***************************************************************************)
(* Call lowering: properties                                               *)
(***************************************************************************)
\* C2 (P2, call ABI: arguments): when the call instruction runs, a(i) holds
\* the value of argument i for i < 8 and sp + 4(i - 8) holds it for i >= 8,
\* wherever the allocator put the argument's VReg.  The value of an argument
\* is a constant, what the VReg's register held before the sequence, or what
\* lies in the VReg's stack location.
C2_ArgumentsPlaced ==
    LET argValue(op) ==
          IF op.kind \in {"Imm", "BoolLit"} THEN [tag |-> "imm", n |-> op.value]
          ELSE IF op.value \in DOMAIN alloc.vregToPhys
          THEN [tag |-> "init", n |-> alloc.vregToPhys[op.value]]
          ELSE [tag |-> "vreg", n |-> op.value]
    IN opcodeAtIp = "call " =>
        \A i \in DOMAIN theCall.ops :
            IF i <= NumArgRegs
            THEN regs["a" \o ToString(i - 1)] = argValue(theCall.ops[i])
            ELSE read(mem, regs["sp"].n + 4 * (i - 1 - NumArgRegs)) = argValue(theCall.ops[i])

useRegs(inst) ==
    LET isVReg(op) == op.kind = "VReg"
        used == CASE inst.opcode \in {"Alloca", "Br", "RetVoid"} -> <<>>
                  [] inst.opcode \in {"Load", "CondBr", "Ret"} ->
                        IF Len(inst.ops) > 0 /\ isVReg(inst.ops[1])
                        THEN <<inst.ops[1]>> ELSE <<>>
                  [] OTHER -> SelectSeq(inst.ops, isVReg)
    IN [i \in DOMAIN used |-> used[i].value]

\* Instruction::isTerminator().
isTerminator(inst) == inst.opcode \in {"Br", "CondBr", "Ret", "RetVoid"}

\* Instruction::branchTargets().
branchTargets(inst) ==
    LET isLabel(k) == Len(inst.ops) >= k /\ inst.ops[k].kind = "Label"
    IN CASE inst.opcode = "Br" -> IF isLabel(1) THEN <<inst.ops[1].label>> ELSE <<>>
         [] inst.opcode = "CondBr" ->
               (IF isLabel(2) THEN <<inst.ops[2].label>> ELSE <<>>)
               \o (IF isLabel(3) THEN <<inst.ops[3].label>> ELSE <<>>)
         [] OTHER -> <<>>

\* posUse() returning the position of the def.
posUseAtDef(inst) == inst.index * 2

\* Instruction::posDef(), posUse().
posDef(inst) == inst.index * 2
posUse(inst) == inst.index * 2 + 1

\* Function::buildCFG() on a function with these blocks: the successors of
\* every block.  (preds, which neither the liveness analysis nor the interval
\* builder reads, is left out.)
buildCFG(blocks) ==
    LET blockMap(name) == CHOOSE b \in DOMAIN blocks : blocks[b].name = name
        known(name) == \E b \in DOMAIN blocks : blocks[b].name = name
        insts(b) == blocks[b].insts
        targets(b) == SelectSeq(branchTargets(insts(b)[Len(insts(b))]), known)
    IN [b \in DOMAIN blocks |->
          IF insts(b) = <<>> THEN <<>>
          ELSE IF isTerminator(insts(b)[Len(insts(b))])
          THEN [k \in DOMAIN targets(b) |-> blockMap(targets(b)[k])]
          ELSE IF b + 1 <= Len(blocks) THEN <<b + 1>> ELSE <<>>]

\* F.buildCFG().
BuildCFG ==
    /\ laPc = "cfg"
    /\ laPc' = "usedef"
    /\ succs' = buildCFG(F.blocks)
    /\ UNCHANGED <<F, useSet, defSet, liveIn, liveOut, rpoOrder, liveIntervals>>
    /\ UNCHANGED <<raVars, cgVars, ibVars>>

\* LivenessAnalysis::computeUseDefSets: useSet has the VRegs a block uses
\* before it defines them, defSet the VRegs it defines; liveIn and liveOut
\* are cleared.
ComputeUseDefSets ==
    /\ laPc = "usedef"
    /\ laPc' = "rpo"
    /\ useSet' = [b \in DOMAIN F.blocks |->
                    {u \in 0 .. F.maxVregId :
                        \E i \in DOMAIN F.blocks[b].insts :
                            /\ u \in Range(useRegs(F.blocks[b].insts[i]))
                            /\ \A j \in 1 .. i - 1 : defReg(F.blocks[b].insts[j]) # u}]
    /\ defSet' = [b \in DOMAIN F.blocks |->
                    {defReg(F.blocks[b].insts[i]) : i \in DOMAIN F.blocks[b].insts} \ {-1}]
    /\ liveIn' = [b \in DOMAIN F.blocks |-> {}]
    /\ liveOut' = [b \in DOMAIN F.blocks |-> {}]
    /\ UNCHANGED <<F, succs, rpoOrder, liveIntervals>>
    /\ UNCHANGED <<raVars, cgVars, ibVars>>

\* The while loop of LivenessAnalysis::buildRPO: depth-first search with an
\* explicit stack of (block, processed) pairs, successors pushed in reverse.
\* The result has the post-order and, for every block visited, the blocks
\* whose (block, true) entry was on the stack when it was visited: its
\* ancestors in the traversal (kept for the properties; the code has no such
\* field).
RECURSIVE dfs(_, _, _, _, _)
dfs(succ, stk, visited, order, ancestors) ==
    IF stk = <<>> THEN [order |-> order, ancestors |-> ancestors]
    ELSE LET top == stk[Len(stk)]
             rest == SubSeq(stk, 1, Len(stk) - 1)
             seen == visited \cup {top.bb}
             notSeen(b) == b \notin seen
             reversed == [k \in DOMAIN succ[top.bb] |->
                             succ[top.bb][Len(succ[top.bb]) + 1 - k]]
             pushed == SelectSeq(reversed, notSeen)
             open == {rest[k].bb : k \in {j \in DOMAIN rest : rest[j].processed}}
         IN IF top.processed
            THEN dfs(succ, rest, visited, Append(order, top.bb), ancestors)
            ELSE IF top.bb \in visited THEN dfs(succ, rest, visited, order, ancestors)
            ELSE dfs(succ,
                     rest \o <<[bb |-> top.bb, processed |-> TRUE]>>
                          \o [k \in DOMAIN pushed |-> [bb |-> pushed[k], processed |-> FALSE]],
                     seen, order, [b \in seen |-> IF b = top.bb THEN open ELSE ancestors[b]])

\* buildRPO without the std::reverse at its end.
buildPostOrder(succ) ==
    dfs(succ, <<[bb |-> 1, processed |-> FALSE]>>, {}, <<>>, <<>>).order

\* LivenessAnalysis::buildRPO(entry) for a function that has a block: the
\* post-order of the search, reversed.
buildRPO(succ) ==
    LET order == dfs(succ, <<[bb |-> 1, processed |-> FALSE]>>, {}, <<>>, <<>>).order
    IN [k \in DOMAIN order |-> order[Len(order) + 1 - k]]

\* F.rpoOrder = buildRPO(F.entryBlock()).
BuildRPO ==
    /\ laPc = "rpo"
    /\ laPc' = "solve"
    /\ rpoOrder' = IF F.blocks = <<>> THEN <<>> ELSE buildRPO(succs)
    /\ UNCHANGED <<F, succs, useSet, defSet, liveIn, liveOut, liveIntervals>>
    /\ UNCHANGED <<raVars, cgVars, ibVars>>

\* liveIn = useSet \cup (liveOut - defSet), with liveIn ignoring useSet.
newLiveInWithoutUse(b, newLiveOut) == newLiveOut \ defSet[b]

\* liveIn = useSet \cup (liveOut - defSet).
newLiveIn(b, newLiveOut) == useSet[b] \cup (newLiveOut \ defSet[b])

\* LivenessAnalysis::computeLivenessIteratively: one pass of the while loop
\* over rpoOrder from its last block to its first, each block reading what
\* the pass has already written; the loop ends after a pass that changes
\* nothing.
LivenessPass ==
    /\ laPc = "solve"
    /\ LET RECURSIVE pass(_, _, _)
           pass(i, lin, lout) ==
               IF i = 0 THEN [liveIn |-> lin, liveOut |-> lout]
               ELSE LET bb == rpoOrder[i]
                        newLiveOut == UNION {lin[succs[bb][k]] : k \in DOMAIN succs[bb]}
                    IN pass(i - 1, [lin EXCEPT ![bb] = newLiveIn(bb, newLiveOut)],
                            [lout EXCEPT ![bb] = newLiveOut])
           after == pass(Len(rpoOrder), liveIn, liveOut)
       IN /\ liveIn' = after.liveIn
          /\ liveOut' = after.liveOut
          /\ laPc' = IF after.liveIn = liveIn /\ after.liveOut = liveOut
                     THEN "number" ELSE "solve"
    /\ UNCHANGED <<F, succs, useSet, defSet, rpoOrder, liveIntervals>>
    /\ UNCHANGED <<raVars, cgVars, ibVars>>

\* LinearScanAllocator::assignInstrPositions: the instructions of the blocks
\* of rpoOrder are numbered 0, 1, ... in that order.
AssignInstrPositions ==
    /\ laPc = "number"
    /\ laPc' = "build"
    /\ LET RECURSIVE first(_)
           first(k) == IF k = 1 THEN 0
                       ELSE first(k - 1) + Len(F.blocks[rpoOrder[k - 1]].insts)
           place(b) == CHOOSE k \in DOMAIN rpoOrder : rpoOrder[k] = b
       IN F' = [F EXCEPT !.blocks =
                  [b \in DOMAIN F.blocks |->
                     IF b \notin Range(rpoOrder) THEN F.blocks[b]
                     ELSE [F.blocks[b] EXCEPT !.insts =
                             [i \in DOMAIN F.blocks[b].insts |->
                                [F.blocks[b].insts[i] EXCEPT
                                    !.index = first(place(b)) + i - 1]]]]]
    /\ UNCHANGED <<succs, useSet, defSet, liveIn, liveOut, rpoOrder, liveIntervals>>
    /\ UNCHANGED <<raVars, cgVars, ibVars>>

\* addRange with a merge of overlapping ranges only: ranges that touch stay
\* apart.
addRangeOverlapOnly(ranges, s, e) ==
    LET rangesOverlap(a, b) == ~(a.end < b.start \/ b.end < a.start)
        join(a, b) == [start |-> Min(a.start, b.start), end |-> Max(a.end, b.end)]
        RECURSIVE insert(_, _, _, _)
        insert(i, nr, placed, merged) ==
            IF i > Len(ranges) THEN (IF placed THEN merged ELSE Append(merged, nr))
            ELSE IF rangesOverlap(nr, ranges[i])
            THEN insert(i + 1, join(nr, ranges[i]), placed, merged)
            ELSE IF ~placed /\ nr.start < ranges[i].start
            THEN insert(i + 1, nr, TRUE, merged \o <<nr, ranges[i]>>)
            ELSE insert(i + 1, nr, placed, Append(merged, ranges[i]))
    IN insert(1, [start |-> s, end |-> e], FALSE, <<>>)

\* LiveInterval::addRange(s, e) on the sorted list of ranges.
addRange(ranges, s, e) ==
    LET rangesOverlap(a, b) == ~(a.end < b.start \/ b.end < a.start)
        adjacent(a, b) == a.end + 1 = b.start \/ b.end + 1 = a.start
        join(a, b) == [start |-> Min(a.start, b.start), end |-> Max(a.end, b.end)]
        RECURSIVE insert(_, _, _, _)
        insert(i, nr, placed, merged) ==
            IF i > Len(ranges) THEN (IF placed THEN merged ELSE Append(merged, nr))
            ELSE IF rangesOverlap(nr, ranges[i]) \/ adjacent(nr, ranges[i])
            THEN insert(i + 1, join(nr, ranges[i]), placed, merged)
            ELSE IF ~placed /\ nr.start < ranges[i].start
            THEN insert(i + 1, nr, TRUE, merged \o <<nr, ranges[i]>>)
            ELSE insert(i + 1, nr, placed, Append(merged, ranges[i]))
        RECURSIVE compact(_, _)
        compact(merged, out) ==
            IF merged = <<>> THEN out
            ELSE IF out # <<>> /\ (rangesOverlap(out[Len(out)], Head(merged))
                                  \/ adjacent(out[Len(out)], Head(merged)))
            THEN compact(Tail(merged),
                         [out EXCEPT ![Len(out)] = join(out[Len(out)], Head(merged))])
            ELSE compact(Tail(merged), Append(out, Head(merged)))
    IN compact(insert(1, [start |-> s, end |-> e], FALSE, <<>>), <<>>)

\* LiveInterval::contains(pos).
contains(ranges, pos) == \E k \in DOMAIN ranges : pos >= ranges[k].start /\ pos <= ranges[k].end

\* The range that buildIntervalForVreg computes for the VReg vr in the block bb:
\* [-1, -1] when it adds none.
blockRange(bb, vr) ==
    LET insts == F.blocks[bb].insts
        liveAtStart == vr \in liveIn[bb]
        liveAtEnd == vr \in liveOut[bb]
        firstPos == IF insts = <<>> THEN -1 ELSE posDef(insts[1])
        lastPos == IF insts = <<>> THEN -1 ELSE posUse(insts[Len(insts)])
        hasDefUse == \E i \in DOMAIN insts :
                        defReg(insts[i]) = vr \/ vr \in Range(useRegs(insts[i]))
        RECURSIVE scan(_, _, _)
        scan(i, rangeStart, rangeEnd) ==
            IF i > Len(insts) THEN [start |-> rangeStart, end |-> rangeEnd]
            ELSE LET isDef == defReg(insts[i]) = vr
                     isUse == vr \in Range(useRegs(insts[i]))
                     s1 == IF isDef /\ rangeStart = -1 THEN posDef(insts[i]) ELSE rangeStart
                     e1 == IF isDef THEN (IF liveAtEnd THEN lastPos ELSE posDef(insts[i]))
                           ELSE rangeEnd
                     s2 == IF isUse /\ s1 = -1
                           THEN (IF liveAtStart THEN firstPos ELSE posUse(insts[i]))
                           ELSE s1
                     e2 == IF isUse THEN Max(e1, posUse(insts[i])) ELSE e1
                 IN scan(i + 1, s2, e2)
    IN IF ~liveAtStart /\ ~liveAtEnd /\ ~hasDefUse THEN [start |-> -1, end |-> -1]
       ELSE scan(1, IF liveAtStart THEN firstPos ELSE -1, IF liveAtEnd THEN lastPos ELSE -1)

\* LiveIntervalBuilder::buildIntervalForVreg: the ranges of the blocks of
\* rpoOrder, added in that order.
buildIntervalForVreg(vr) ==
    LET RECURSIVE walk(_, _)
        walk(k, ranges) ==
            IF k > Len(rpoOrder) THEN ranges
            ELSE LET r == blockRange(rpoOrder[k], vr)
                 IN walk(k + 1, IF r.start # -1 /\ r.end # -1
                                THEN addRange(ranges, r.start, r.end) ELSE ranges)
    IN walk(1, <<>>)

\* LiveIntervalBuilder::build: the non-empty intervals of VRegs 0 .. maxVregId.
Build ==
    /\ laPc = "build"
    /\ laPc' = "done"
    /\ liveIntervals' = [v \in {w \in 0 .. F.maxVregId : buildIntervalForVreg(w) # <<>>} |->
                            buildIntervalForVreg(v)]
    /\ UNCHANGED <<F, succs, useSet, defSet, liveIn, liveOut, rpoOrder>>
    /\ UNCHANGED <<raVars, cgVars, ibVars>>

(***************************************************************************)
(* Liveness: the functions analysed                                        *)
(***************************************************************************)
\* The most blocks of a function and its highest VReg.
MaxBlocks == 3
MaxVreg == 1

\* What a block holds before its terminator: nothing, a def, a use of one
\* VReg that defines the other, a use that redefines the VReg it reads, a def
\* followed by its use, or a use followed by a def of the same VReg.
LiveBodies ==
    LET alloca == Instruction("Alloca", "i32", vreg(0), <<>>, "EQ", <<>>)
        load(d, u) == Instruction("Load", "i32", vreg(d), <<vreg(u)>>, "EQ", <<>>)
        add == Instruction("Add", "i32", vreg(MaxVreg), <<vreg(MaxVreg), imm(1)>>, "EQ", <<>>)
    IN {<<>>, <<alloca>>, <<load(MaxVreg, 0)>>, <<load(0, MaxVreg)>>, <<add>>,
        <<alloca, load(MaxVreg, 0)>>, <<load(MaxVreg, 0), alloca>>}

\* How a block ends: it falls through, returns, jumps to a block that is not
\* the entry, or branches on %0 to the next two blocks.
LiveTerminators(n) ==
    {<<>>,
     <<Instruction("RetVoid", "void", none, <<>>, "EQ", <<>>)>>,
     <<Instruction("Ret", "i32", none, <<vreg(MaxVreg)>>, "EQ", <<>>)>>}
    \cup {<<Instruction("Br", "void", none, <<label(<<"b" \o ToString(t)>>)>>, "EQ", <<>>)>>
          : t \in 1 .. n - 1}
    \cup {<<Instruction("CondBr", "void", none,
                        <<vreg(0), label(<<"b" \o ToString(t)>>),
                          label(<<"b" \o ToString(t + 1)>>)>>, "EQ", <<>>)>>
          : t \in 1 .. n - 2}

\* The function with the given bodies and terminators of its blocks.
LiveFunction(body, term) ==
    [name |-> <<"f">>, maxVregId |-> MaxVreg,
     blocks |-> Function(<<"f">>, [b \in DOMAIN body |-> body[b] \o term[b]]).blocks]

\* allocate() is about to analyse a function.
LiveInit ==
    /\ laPc = "cfg"
    /\ \E n \in 1 .. MaxBlocks :
          \E body \in [1 .. n -> LiveBodies], term \in [1 .. n -> LiveTerminators(n)] :
             F = LiveFunction(body, term)
    /\ succs = <<>>
    /\ useSet = <<>>
    /\ defSet = <<>>
    /\ liveIn = <<>>
    /\ liveOut = <<>>
    /\ rpoOrder = <<>>
    /\ liveIntervals = EmptyMap
    /\ AllocIdle
    /\ CodeGenIdle
    /\ BuildIdle

LiveNext ==
    \/ BuildCFG
    \/ ComputeUseDefSets
    \/ BuildRPO
    \/ LivenessPass
    \/ AssignInstrPositions
    \/ Build

SpecLive == LiveInit /\ [][LiveNext]_vars

\* No function has been handed to allocate() yet.
LiveFairInit ==
    /\ LiveIdle
    /\ AllocIdle
    /\ CodeGenIdle
    /\ BuildIdle

\* allocate(F) is called and is about to run the liveness analysis on F.
RunLiveness ==
    /\ laPc = "idle"
    /\ laPc' = "cfg"
    /\ \E n \in 1 .. MaxBlocks :
          \E body \in [1 .. n -> LiveBodies], term \in [1 .. n -> LiveTerminators(n)] :
             F' = LiveFunction(body, term)
    /\ UNCHANGED <<succs, useSet, defSet, liveIn, liveOut, rpoOrder, liveIntervals>>
    /\ UNCHANGED <<raVars, cgVars, ibVars>>

LiveFairNext ==
    \/ RunLiveness
    \/ LiveNext

\* The while loop of computeLivenessIteratively runs on one thread: while
\* `changed` is set, the next pass is taken.
SpecLiveFair == LiveFairInit /\ [][LiveFairNext]_vars /\ WF_vars(LivenessPass)

(***************************************************************************)
(* Liveness: one LiveInterval and the ranges added to it                   *)
(***************************************************************************)
\* The highest position of a range.
MaxPos == 7

\* A LiveInterval of the VReg 0 has been constructed: it has no range.
RangeInit ==
    /\ laPc = "interval"
    /\ liveIntervals = [v \in {0} |-> <<>>]
    /\ F = EmptyMap
    /\ succs = <<>>
    /\ useSet = <<>>
    /\ defSet = <<>>
    /\ liveIn = <<>>
    /\ liveOut = <<>>
    /\ rpoOrder = <<>>
    /\ AllocIdle
    /\ CodeGenIdle
    /\ BuildIdle

\* interval.addRange(s, e) with s <= e.
AddRange ==
    /\ laPc = "interval"
    /\ \E s \in 0 .. MaxPos, e \in 0 .. MaxPos :
          /\ s <= e
          /\ liveIntervals' = [liveIntervals EXCEPT ![0] = addRange(@, s, e)]
    /\ UNCHANGED <<laPc, F, succs, useSet, defSet, liveIn, liveOut, rpoOrder>>
    /\ UNCHANGED <<raVars, cgVars, ibVars>>

RangeNext == AddRange

SpecRange == RangeInit /\ [][RangeNext]_vars

newLabel(b, base) == <<base, "_", ToString(b.labelCounter_)>>

\* IRBuilder::createBlock(name) followed by setInsertBlock of the new block.
createBlock(b, name) ==
    [b EXCEPT !.blocks = Append(@, [name |-> name, insts |-> <<>>]),
              !.currentBB_ = Len(b.blocks) + 1]

\* IRBuilder::emit(inst): the instruction goes to the end of the current block.
\* (trace_ is kept for the properties, the code has no such field: the loads
\* and stores in the order of their emission, and the answers from the load
\* cache between them.)
emitInst(b, inst) ==
    [b EXCEPT !.blocks[b.currentBB_].insts = Append(@, inst),
              !.trace_ = CASE inst.opcode = "Load" ->
                                Append(@, [kind |-> "Load", value |-> inst.def,
                                           slot |-> inst.ops[1]])
                           [] inst.opcode = "Store" ->
                                Append(@, [kind |-> "Store", value |-> inst.ops[1],
                                           slot |-> inst.ops[2]])
                           [] OTHER -> @]

\* IRBuilder::findVariable(name): the innermost scope that has the name.
findVariable(b, name) ==
    LET has == {i \in DOMAIN b.scopeStack_ : name \in DOMAIN b.scopeStack_[i]}
    IN IF has = {} THEN none
       ELSE b.scopeStack_[CHOOSE i \in has : \A j \in has : j <= i][name]

\* IRBuilder::addVariable(name, allocaReg).
addVariable(b, name, allocaReg) ==
    IF b.scopeStack_ = <<>> THEN b
    ELSE [b EXCEPT !.scopeStack_[Len(b.scopeStack_)] = MapPut(@, name, allocaReg)]

RECURSIVE buildExpr(_, _)
RECURSIVE buildOperands(_, _)

\* buildExpr on the expressions of a list from left to right, as buildCall
\* does for the arguments and buildBinaryOp and buildComparison do for lhs
\* and rhs: the builder after them and the operands they returned.  Every
\* call has returned before the next one begins: `before` and `arg` are
\* bound to the values of the calls.
buildOperands(b, exprs) ==
    IF exprs = <<>> THEN [b |-> b, values |-> <<>>]
    ELSE CHOOSE all \in
             UNION {{[b |-> arg.b, values |-> Append(before.values, arg.value)]
                     : arg \in {buildExpr(before.b, exprs[Len(exprs)])}}
                    : before \in {buildOperands(b, SubSeq(exprs, 1, Len(exprs) - 1))}} :
             TRUE

\* IRBuilder::buildComparison(op, lhs, rhs): the builder after it and the
\* operand it returns, as for every expression.
buildComparison(b, op, lhs, rhs) ==
    LET pred == CASE op = "==" -> "EQ" [] op = "!=" -> "NE" [] op = "<" -> "SLT"
                  [] op = ">" -> "SGT" [] op = "<=" -> "SLE" [] OTHER -> "SGE"
        compare(both) ==
            LET result == vreg(both.b.vregCounter_ + 1)
            IN [b |-> emitInst([both.b EXCEPT !.vregCounter_ = @ + 1],
                               Instruction("ICmp", "i32", result, both.values, pred, <<>>)),
                value |-> result]
    IN compare(buildOperands(b, <<lhs, rhs>>))

\* buildLogicalOp evaluating the right operand before the CondBr on the left
\* one, in the block of the left operand.
buildLogicalOpEager(b, op, lhs, rhs) ==
    LET resultVar == vreg(b.vregCounter_ + 1)
        isAnd == op = "&&"
        store(value) == [Instruction("Store", "i1", none, <<value, resultVar>>, "EQ", <<>>)
                         EXCEPT !.align = 1]
        blocks(both) ==
            LET shortName == newLabel(both.b, IF isAnd THEN "land_false" ELSE "lor_true")
                rhsName == newLabel(both.b, IF isAnd THEN "land_rhs" ELSE "lor_rhs")
                endName == newLabel(both.b, IF isAnd THEN "land_end" ELSE "lor_end")
                br == Instruction("Br", "void", none, <<label(endName)>>, "EQ", <<>>)
                branched ==
                    emitInst([both.b EXCEPT !.labelCounter_ = @ + 1],
                             Instruction("CondBr", "void", none,
                                         IF isAnd
                                         THEN <<both.values[1], label(rhsName),
                                                label(shortName)>>
                                         ELSE <<both.values[1], label(shortName),
                                                label(rhsName)>>,
                                         "EQ", <<>>))
                shortDone == emitInst(emitInst(createBlock(branched, shortName),
                                               store(boolLit(~isAnd))), br)
                rhsDone == emitInst(emitInst(createBlock(shortDone, rhsName),
                                             store(both.values[2])), br)
                endBB == createBlock(rhsDone, endName)
                result == vreg(endBB.vregCounter_ + 1)
            IN [b |-> emitInst([endBB EXCEPT !.vregCounter_ = @ + 1],
                               [Instruction("Load", "i1", result, <<resultVar>>, "EQ", <<>>)
                                EXCEPT !.align = 1]),
                value |-> result]
    IN blocks(buildOperands(emitInst([b EXCEPT !.vregCounter_ = @ + 1],
                                     [Instruction("Alloca", "i1", resultVar, <<>>, "EQ", <<>>)
                                      EXCEPT !.align = 1]),
                            <<lhs, rhs>>))

\* IRBuilder::buildLogicalOp(op, lhs, rhs): the short-circuit blocks of && and
\* of ||, with the result in an i1 stack slot.  The alloca and lhs go to the
\* current block; short(lhsOp) is the code from the CondBr to the block of
\* rhs, and end(rhsOp, endName) the code after rhs.
buildLogicalOp(b, op, lhs, rhs) ==
    LET resultVar == vreg(b.vregCounter_ + 1)
        isAnd == op = "&&"
        store(value) == [Instruction("Store", "i1", none, <<value, resultVar>>, "EQ", <<>>)
                         EXCEPT !.align = 1]
        br(endName) == Instruction("Br", "void", none, <<label(endName)>>, "EQ", <<>>)
        end(rhsOp, endName) ==
            LET rhsDone == emitInst(emitInst(rhsOp.b, store(rhsOp.values[1])), br(endName))
                endBB == createBlock(rhsDone, endName)
                result == vreg(endBB.vregCounter_ + 1)
            IN [b |-> emitInst([endBB EXCEPT !.vregCounter_ = @ + 1],
                               [Instruction("Load", "i1", result, <<resultVar>>, "EQ", <<>>)
                                EXCEPT !.align = 1]),
                value |-> result]
        short(lhsOp) ==
            LET shortName == newLabel(lhsOp.b, IF isAnd THEN "land_false" ELSE "lor_true")
                rhsName == newLabel(lhsOp.b, IF isAnd THEN "land_rhs" ELSE "lor_rhs")
                endName == newLabel(lhsOp.b, IF isAnd THEN "land_end" ELSE "lor_end")
                branched ==
                    emitInst([lhsOp.b EXCEPT !.labelCounter_ = @ + 1],
                             Instruction("CondBr", "void", none,
                                         IF isAnd
                                         THEN <<lhsOp.values[1], label(rhsName),
                                                label(shortName)>>
                                         ELSE <<lhsOp.values[1], label(shortName),
                                                label(rhsName)>>,
                                         "EQ", <<>>))
                shortDone == emitInst(emitInst(createBlock(branched, shortName),
                                               store(boolLit(~isAnd))), br(endName))
            IN end(buildOperands(createBlock(shortDone, rhsName), <<rhs>>), endName)
    IN short(buildOperands(emitInst([b EXCEPT !.vregCounter_ = @ + 1],
                                    [Instruction("Alloca", "i1", resultVar, <<>>, "EQ", <<>>)
                                     EXCEPT !.align = 1]),
                           <<lhs>>))

\* IRBuilder::buildBinaryOp(op, lhs, rhs).
buildBinaryOp(b, op, lhs, rhs) ==
    IF op \in {"&&", "||"} THEN buildLogicalOp(b, op, lhs, rhs)
    ELSE IF op \in {"==", "!=", "<", ">", "<=", ">="} THEN buildComparison(b, op, lhs, rhs)
    ELSE LET opc == CASE op = "+" -> "Add" [] op = "-" -> "Sub" [] op = "*" -> "Mul"
                      [] op = "/" -> "SDiv" [] OTHER -> "SRem"
             compute(both) ==
                 LET result == vreg(both.b.vregCounter_ + 1)
                 IN [b |-> emitInst([both.b EXCEPT !.vregCounter_ = @ + 1],
                                    Instruction(opc, "i32", result, both.values, "EQ", <<>>)),
                     value |-> result]
         IN compute(buildOperands(b, <<lhs, rhs>>))

\* IRBuilder::buildCall(call): the arguments from left to right, then the call.
buildCall(b, call) ==
    LET invoke(all) ==
            LET result == vreg(all.b.vregCounter_ + 1)
            IN [b |-> emitInst([all.b EXCEPT !.vregCounter_ = @ + 1],
                               Instruction("Call", "i32", result, all.values, "EQ",
                                           <<call.callee>>)),
                value |-> result]
    IN invoke(buildOperands(b, call.args))

\* IRBuilder::buildExpr(expr) for NumberExpr, IdentifierExpr, BinaryExpr and
\* CallExpr: the builder after it and the operand it returns.
buildExpr(b, expr) ==
    IF expr.kind = "Number" THEN [b |-> b, value |-> imm(expr.value)]
    ELSE IF expr.kind = "Identifier"
    THEN IF findVariable(b, expr.name).kind # "None"
         THEN IF expr.name \in DOMAIN b.loadedValues_
              THEN [b |-> [b EXCEPT !.trace_ =
                                Append(@, [kind |-> "Hit", value |-> b.loadedValues_[expr.name],
                                           slot |-> findVariable(b, expr.name)])],
                    value |-> b.loadedValues_[expr.name]]
              ELSE LET temp == vreg(b.vregCounter_ + 1)
                       loaded == emitInst([b EXCEPT !.vregCounter_ = @ + 1],
                                          Instruction("Load", "i32", temp,
                                                      <<findVariable(b, expr.name)>>,
                                                      "EQ", <<>>))
                   IN [b |-> [loaded EXCEPT !.loadedValues_ = MapPut(@, expr.name, temp)],
                       value |-> temp]
         ELSE IF \E n \in 0 .. 9 : ToString(n) = expr.name
         THEN [b |-> b, value |-> vreg(CHOOSE n \in 0 .. 9 : ToString(n) = expr.name)]
         ELSE [b |-> b, value |-> imm(0)]
    ELSE IF expr.kind = "Binary" THEN buildBinaryOp(b, expr.op, expr.lhs, expr.rhs)
    ELSE IF expr.kind = "Call" THEN buildCall(b, expr)
    ELSE [b |-> b, value |-> imm(0)]

\* IRBuilder::buildAssign(assign): store(value) is the code after the
\* expression.
buildAssign(b, assign) ==
    LET store(value) ==
            IF findVariable(value.b, assign.name).kind = "None" THEN value.b
            ELSE [emitInst(value.b, Instruction("Store", "i32", none,
                                                <<value.value,
                                                  findVariable(value.b, assign.name)>>,
                                                "EQ", <<>>))
                  EXCEPT !.loadedValues_ = MapErase(@, assign.name)]
    IN store(buildExpr(b, assign.expr))

\* IRBuilder::buildDecl(decl): declare(val) is the code after the expression.
buildDecl(b, decl) ==
    LET declare(val) ==
            LET slot == vreg(val.b.vregCounter_ + 1)
                made == emitInst([val.b EXCEPT !.vregCounter_ = @ + 1],
                                 Instruction("Alloca", "i32", slot, <<>>, "EQ", <<>>))
            IN [emitInst(addVariable(made, decl.name, slot),
                         Instruction("Store", "i32", none, <<val.value, slot>>, "EQ", <<>>))
                EXCEPT !.loadedValues_ = MapErase(@, decl.name)]
    IN declare(buildExpr(b, decl.expr))

RECURSIVE buildStmt(_, _)

\* IRBuilder::buildBlock(block).
buildBlock(b, block) ==
    LET RECURSIVE each(_, _)
        each(c, k) == IF k > Len(block.stmts) THEN c
                      ELSE each(buildStmt(c, block.stmts[k]), k + 1)
    IN [each([b EXCEPT !.scopeStack_ = Append(@, EmptyMap)], 1) EXCEPT !.scopeStack_ =
            IF @ = <<>> THEN @ ELSE SubSeq(@, 1, Len(@) - 1)]

\* IRBuilder::buildIf(ifStmt): branch(cond) is the code from the CondBr to
\* the then block, else(thenDone, ...) the code between the two statements,
\* end(elseDone, ...) the code after them.
buildIf(b, ifStmt) ==
    LET br(endName) == Instruction("Br", "void", none, <<label(endName)>>, "EQ", <<>>)
        end(elseDone, endName) ==
            [createBlock(emitInst(elseDone, br(endName)), endName)
             EXCEPT !.loadedValues_ = EmptyMap]
        else(thenDone, elseName, endName) ==
            end(buildStmt([createBlock(emitInst(thenDone, br(endName)), elseName)
                           EXCEPT !.loadedValues_ = EmptyMap],
                          ifStmt.elseStmt),
                endName)
        branch(cond) ==
            LET thenName == newLabel(cond.b, "then")
                elseName == newLabel(cond.b, "else")
                endName == newLabel(cond.b, "endif")
                branched ==
                    emitInst([cond.b EXCEPT !.labelCounter_ = @ + 1],
                             Instruction("CondBr", "void", none,
                                         <<cond.value, label(thenName), label(elseName)>>,
                                         "EQ", <<>>))
            IN else(buildStmt([createBlock(branched, thenName)
                               EXCEPT !.loadedValues_ = EmptyMap],
                              ifStmt.thenStmt),
                    elseName, endName)
    IN branch(buildExpr([b EXCEPT !.loadedValues_ = EmptyMap], ifStmt.cond))

\* IRBuilder::buildWhile(whileStmt): branch(cond) is the code from the CondBr
\* to the body block, end(bodyDone) the code after the body.
buildWhile(b, whileStmt) ==
    LET condName == newLabel(b, "while_cond")
        bodyName == newLabel(b, "while_body")
        endName == newLabel(b, "while_end")
        br == Instruction("Br", "void", none, <<label(condName)>>, "EQ", <<>>)
        entered == emitInst([b EXCEPT !.labelCounter_ = @ + 1,
                                      !.breakLabels_ = Append(@, endName),
                                      !.continueLabels_ = Append(@, condName)], br)
        end(bodyDone) ==
            [createBlock(emitInst(bodyDone, br), endName) EXCEPT
                !.breakLabels_ = SubSeq(@, 1, Len(@) - 1),
                !.continueLabels_ = SubSeq(@, 1, Len(@) - 1)]
        branch(cond) ==
            end(buildStmt([createBlock(emitInst(cond.b,
                                                Instruction("CondBr", "void", none,
                                                            <<cond.value, label(bodyName),
                                                              label(endName)>>,
                                                            "EQ", <<>>)),
                                       bodyName)
                           EXCEPT !.loadedValues_ = EmptyMap],
                          whileStmt.body))
    IN branch(buildExpr([createBlock(entered, condName) EXCEPT !.loadedValues_ = EmptyMap],
                        whileStmt.cond))

\* IRBuilder::buildReturn(retStmt).
buildReturn(b, retStmt) ==
    LET ret(value) ==
            emitInst(value.b, Instruction("Ret", "i32", none, <<value.value>>, "EQ", <<>>))
    IN [(IF retStmt.expr.kind # "Null"
         THEN ret(buildExpr(b, retStmt.expr))
         ELSE emitInst(b, Instruction("RetVoid", "void", none, <<>>, "EQ", <<>>)))
        EXCEPT !.hasReturn_ = TRUE]

\* IRBuilder::buildStmt(stmt) for if, while, return, break, continue, block
\* and expression statements; buildBreak and buildContinue are its two short
\* cases.
buildStmt(b, stmt) ==
    CASE stmt.kind = "Assign" -> buildAssign(b, stmt)
      [] stmt.kind = "Decl" -> buildDecl(b, stmt)
      [] stmt.kind = "If" -> buildIf(b, stmt)
      [] stmt.kind = "While" -> buildWhile(b, stmt)
      [] stmt.kind = "Return" -> buildReturn(b, stmt)
      [] stmt.kind = "Break" ->
            IF b.breakLabels_ = <<>> THEN b
            ELSE emitInst(b, Instruction("Br", "void", none,
                                         <<label(b.breakLabels_[Len(b.breakLabels_)])>>,
                                         "EQ", <<>>))
      [] stmt.kind = "Continue" ->
            IF b.continueLabels_ = <<>> THEN b
            ELSE emitInst(b, Instruction("Br", "void", none,
                                         <<label(b.continueLabels_[Len(b.continueLabels_)])>>,
                                         "EQ", <<>>))
      [] stmt.kind = "Block" -> buildBlock(b, stmt)
      [] stmt.kind \in {"Number", "Identifier", "Binary", "Call"} -> buildExpr(b, stmt).b
      [] OTHER -> b

\* IRBuilder::buildFunction(funcDef): the builder after it, with the blocks
\* of the function it built; close(body) is the default return.
buildFunction(b, funcDef) ==
    LET n == Len(funcDef.params)
        isMain == funcDef.name = "main"
        reset == [b EXCEPT !.labelCounter_ = 0, !.vregCounter_ = n,
                           !.scopeStack_ = <<EmptyMap>>, !.loadedValues_ = EmptyMap,
                           !.breakLabels_ = <<>>, !.continueLabels_ = <<>>,
                           !.currentFuncName_ = funcDef.name, !.hasReturn_ = FALSE,
                           !.isMainFunction_ = isMain, !.blocks = <<>>,
                           !.trace_ = <<>>]
        entryBB == createBlock(reset, <<"entry">>)
        retVar == vreg(entryBB.vregCounter_ + 1)
        withRet == IF ~isMain THEN entryBB
                   ELSE emitInst(emitInst(addVariable([entryBB EXCEPT !.vregCounter_ = @ + 1],
                                                      funcDef.name \o "_ret", retVar),
                                          Instruction("Alloca", "i32", retVar, <<>>, "EQ", <<>>)),
                                 Instruction("Store", "i32", none, <<imm(0), retVar>>, "EQ",
                                             <<>>))
        RECURSIVE bind(_, _)
        bind(c, i) ==
            IF i > n THEN c
            ELSE LET slot == vreg(c.vregCounter_ + 1)
                     stored == emitInst(emitInst([c EXCEPT !.vregCounter_ = @ + 1],
                                                 Instruction("Alloca", "i32", slot, <<>>, "EQ",
                                                             <<>>)),
                                        Instruction("Store", "i32", none,
                                                    <<vreg(i - 1), slot>>, "EQ", <<>>))
                 IN bind(addVariable(addVariable(stored, ToString(i - 1), slot),
                                     funcDef.params[i], slot), i + 1)
        close(body) ==
            IF body.hasReturn_ THEN body
            ELSE IF funcDef.retType = "int"
            THEN emitInst(body, Instruction("Ret", "i32", none, <<imm(0)>>, "EQ", <<>>))
            ELSE emitInst(body, Instruction("RetVoid", "void", none, <<>>, "EQ", <<>>))
    IN close(buildBlock(bind(withRet, 1), funcDef.body))

\* IRBuilder::buildModule, up to its loop: an empty module.
BuildModule ==
    /\ ibPc = "start"
    /\ ibPc' = "function"
    /\ mod' = <<>>
    /\ UNCHANGED <<funcs, irBuilder, llvmIR, parsed>>
    /\ UNCHANGED <<raVars, cgVars, laVars>>

\* One iteration of the loop of buildModule: buildFunction for the next
\* function, which renames the parameters of the AST to their indices and
\* appends the function to the module.
BuildFunction ==
    /\ ibPc = "function"
    /\ Len(mod) < Len(funcs)
    /\ LET funcDef == funcs[Len(mod) + 1]
           built == buildFunction(irBuilder, funcDef)
       IN /\ irBuilder' = built
          /\ funcs' = [funcs EXCEPT ![Len(mod) + 1].params =
                          [i \in DOMAIN funcDef.params |-> ToString(i - 1)]]
          /\ mod' = Append(mod, [name |-> <<funcDef.name>>,
                                 returnType |-> funcDef.retType,
                                 paramVregs |-> [i \in DOMAIN funcDef.params |-> i - 1],
                                 blocks |-> built.blocks,
                                 maxVregId |-> built.vregCounter_])
    /\ ibPc' = IF Len(mod) + 1 = Len(funcs) THEN "done" ELSE "function"
    /\ UNCHANGED <<llvmIR, parsed>>
    /\ UNCHANGED <<raVars, cgVars, laVars>>

(***************************************************************************)
(* IR text: Module::toString (ir.cpp) and IRParser (ir_parser.cpp)         *)
(***************************************************************************)
\* A line of IR text is the sequence of the fragments it was concatenated
\* from: the literals of toString ("br i1 ", ", label ", ...), "%", a number
\* as std::to_string prints it, a type, a name.  The text is the sequence of
\* its lines.  The parser's regular expressions are matched on the fragments:
\* a line has the form of an expression when its literals are the literals
\* of the expression in the same order and the fragments between them are
\* what the groups of the expression accept.

\* Operand::toString().
operandToString(op) ==
    CASE op.kind = "VReg" -> <<"%", ToString(op.value)>>
      [] op.kind = "Imm" -> <<ToString(op.value)>>
      [] op.kind = "Label" -> <<"%">> \o op.label
      [] op.kind = "BoolLit" -> <<IF op.value # 0 THEN "true" ELSE "false">>
      [] OTHER -> <<>>

\* Instruction::toString(), with opcodeToString and cmpPredToString; nsw is
\* true in every instruction that makeBinOp made.
instructionToString(inst) ==
    LET str(k) == operandToString(inst.ops[k])
        def == operandToString(inst.def)
        align == <<", align ", ToString(inst.align)>>
        opcodeToString == CASE inst.opcode = "Add" -> "add" [] inst.opcode = "Sub" -> "sub"
                            [] inst.opcode = "Mul" -> "mul" [] inst.opcode = "SDiv" -> "sdiv"
                            [] OTHER -> "srem"
        cmpPredToString == CASE inst.cmpPred = "EQ" -> "eq" [] inst.cmpPred = "NE" -> "ne"
                             [] inst.cmpPred = "SLT" -> "slt" [] inst.cmpPred = "SGT" -> "sgt"
                             [] inst.cmpPred = "SLE" -> "sle" [] OTHER -> "sge"
        RECURSIVE args(_)
        args(j) == IF j = 0 THEN <<>>
                   ELSE args(j - 1) \o (IF j > 1 THEN <<", ">> ELSE <<>>)
                        \o <<"i32 noundef ">> \o str(j)
    IN CASE inst.opcode = "Alloca" -> def \o <<" = alloca ", inst.type>> \o align
         [] inst.opcode = "Load" -> def \o <<" = load ", inst.type, ", ptr ">> \o str(1) \o align
         [] inst.opcode = "Store" ->
               <<"store ", inst.type, " ">> \o str(1) \o <<", ptr ">> \o str(2) \o align
         [] inst.opcode \in {"Add", "Sub", "Mul", "SDiv", "SRem"} ->
               def \o <<" = ", opcodeToString, " nsw", " ", inst.type, " ">> \o str(1)
               \o <<", ">> \o str(2)
         [] inst.opcode = "ICmp" ->
               def \o <<" = icmp ", cmpPredToString, " ", inst.type, " ">> \o str(1)
               \o <<", ">> \o str(2)
         [] inst.opcode = "Br" -> <<"br label ">> \o str(1)
         [] inst.opcode = "CondBr" ->
               <<"br i1 ">> \o str(1) \o <<", label ">> \o str(2) \o <<", label ">> \o str(3)
         [] inst.opcode = "Ret" -> <<"ret ", inst.type, " ">> \o str(1)
         [] inst.opcode = "RetVoid" -> <<"ret void">>
         [] inst.opcode = "Call" ->
               def \o <<" = call ", inst.type, " @">> \o inst.callee \o <<"(">>
               \o args(Len(inst.ops)) \o <<")">>

\* Module::toString() with Function::toString(): the lines of the text of the
\* functions fs.
moduleToString(fs) ==
    LET RECURSIVE params(_, _)
        params(f, i) == IF i = 0 THEN <<>>
                        ELSE params(f, i - 1) \o (IF i > 1 THEN <<", ">> ELSE <<>>)
                             \o <<"i32 noundef %", ToString(f.paramVregs[i])>>
        define(f) == <<"define dso_local ", IF f.returnType = "void" THEN "void" ELSE "i32",
                       " @">> \o f.name \o <<"(">> \o params(f, Len(f.paramVregs))
                     \o <<") #0 {">>
        block(f, bi) == (IF bi > 1 THEN <<<<>>, f.blocks[bi].name \o <<":">>>> ELSE <<>>)
                        \o [j \in DOMAIN f.blocks[bi].insts |->
                              <<"  ">> \o instructionToString(f.blocks[bi].insts[j])]
        RECURSIVE body(_, _)
        body(f, bi) == IF bi = 0 THEN <<>> ELSE body(f, bi - 1) \o block(f, bi)
        RECURSIVE functions(_)
        functions(k) ==
            IF k = 0 THEN <<>>
            ELSE functions(k - 1) \o <<define(fs[k])>> \o body(fs[k], Len(fs[k].blocks))
                 \o <<<<"}">>, <<>>>>
    IN <<<<"; ModuleID = '", "toyc", "'">>, <<"source_filename = \"", "toyc", "\"">>,
         <<"target triple = \"", "riscv32-unknown-elf", "\"">>, <<>>, <<>>>>
       \o functions(Len(fs))

\* The numbers that a line may spell.
isDigits(s) == \E n \in 0 .. 256 : ToString(n) = s

\* IRParser::parseOperand(text).
parseOperand(text) ==
    IF text = <<>> THEN none
    ELSE IF text = <<"true">> THEN boolLit(TRUE)
    ELSE IF text = <<"false">> THEN boolLit(FALSE)
    ELSE IF text[1] = "%"
    THEN IF Len(text) = 2 /\ isDigits(text[2]) THEN vreg(parseInt(text[2]))
         ELSE label(Tail(text))
    ELSE IF Len(text) = 1 /\ \E n \in -256 .. 256 : ToString(n) = text[1]
    THEN imm(parseInt(text[1]))
    ELSE none

\* IRParser::parseInstruction(line).
parseInstruction(line) ==
    LET literals == {"ret ", " ", "br label ", "br i1 ", ", label ", "store ", ", ptr ",
                     ", align ", " = alloca ", " = load ", " = call ", " @", "(",
                     "i32 noundef ", ", ", ")", " = icmp ", " = ", " nsw"}
        isLiteral(s) == s \in literals
        s == SelectSeq(line, LAMBDA t : t # "  ")
        \* the literals of the line, and the fragments before, between and
        \* after them
        lits == SelectSeq(s, isLiteral)
        at(k) == CHOOSE i \in DOMAIN s :
                    /\ isLiteral(s[i])
                    /\ Cardinality({j \in 1 .. i : isLiteral(s[j])}) = k
        from(k) == IF k = 0 THEN 1 ELSE at(k) + 1
        to(k) == IF k = Len(lits) THEN Len(s) ELSE at(k + 1) - 1
        group(k) == SubSeq(s, from(k), to(k))
        \* what the groups of the expressions accept
        isVReg(t) == Len(t) = 2 /\ t[1] = "%" /\ isDigits(t[2])
        isInt(t) == Len(t) = 1 /\ \E n \in -256 .. 256 : ToString(n) = t[1]
        isBool(t) == t \in {<<"true">>, <<"false">>}
        isWord(t) == Len(t) = 1
        isLabel(t) == Len(t) > 1 /\ t[1] = "%"
        optionalAlign(k) == \/ Len(lits) = k - 1
                            \/ Len(lits) = k /\ lits[k] = ", align " /\ isInt(group(k))
        align(k) == IF Len(lits) = k THEN parseInt(group(k)[1]) ELSE 4
        starts(prefix) == SubSeq(lits, 1, Len(prefix)) = prefix
        def == parseOperand(group(0))
        stringToCmpPred == CASE group(1) = <<"eq">> -> "EQ" [] group(1) = <<"ne">> -> "NE"
                             [] group(1) = <<"slt">> -> "SLT" [] group(1) = <<"sgt">> -> "SGT"
                             [] group(1) = <<"sle">> -> "SLE" [] group(1) = <<"sge">> -> "SGE"
                             [] OTHER -> "EQ"
        arith == [add |-> "Add", sub |-> "Sub", mul |-> "Mul", sdiv |-> "SDiv",
                  srem |-> "SRem"]
        \* add nsw i32 a, b  or  add i32 a, b: the groups of the type and of
        \* the operands
        typeAt == IF starts(<<" = ", " nsw">>) THEN 3 ELSE 2
        callArgs == LET isArg(k) == /\ lits[k] = "i32 noundef "
                                    /\ isVReg(group(k)) \/ isInt(group(k))
                        RECURSIVE upTo(_)
                        upTo(k) == IF k = 0 THEN <<>>
                                   ELSE upTo(k - 1)
                                        \o (IF isArg(k) THEN <<parseOperand(group(k))>>
                                            ELSE <<>>)
                    IN upTo(Len(lits))
        retVoid == Instruction("RetVoid", "void", none, <<>>, "EQ", <<>>)
    IN IF s = <<"ret void">> THEN retVoid
       ELSE IF s # <<>> /\ s[1] = "ret "
       THEN IF lits = <<"ret ", " ">> /\ isWord(group(1)) /\ group(2) # <<>>
            THEN Instruction("Ret", group(1)[1], none, <<parseOperand(group(2))>>, "EQ", <<>>)
            ELSE retVoid
       ELSE IF /\ s # <<>> /\ s[1] = "br label "
               /\ lits = <<"br label ">> /\ isLabel(group(1))
       THEN Instruction("Br", "void", none, <<label(Tail(group(1)))>>, "EQ", <<>>)
       ELSE IF /\ s # <<>> /\ s[1] = "br i1 "
               /\ lits = <<"br i1 ", ", label ", ", label ">>
               /\ isVReg(group(1)) \/ isBool(group(1))
               /\ isLabel(group(2)) /\ isLabel(group(3))
       THEN Instruction("CondBr", "void", none,
                        <<parseOperand(group(1)), label(Tail(group(2))),
                          label(Tail(group(3)))>>, "EQ", <<>>)
       ELSE IF /\ s # <<>> /\ s[1] = "store "
               /\ starts(<<"store ", " ", ", ptr ">>) /\ optionalAlign(4)
               /\ isWord(group(1))
               /\ isVReg(group(2)) \/ isInt(group(2)) \/ isBool(group(2))
               /\ isVReg(group(3))
       THEN [Instruction("Store", group(1)[1], none,
                         <<parseOperand(group(2)), parseOperand(group(3))>>, "EQ", <<>>)
             EXCEPT !.align = align(4)]
       ELSE IF Len(lits) > 0 /\ at(1) > 1 /\ isVReg(group(0))
       THEN IF /\ starts(<<" = alloca ">>) /\ optionalAlign(2) /\ isWord(group(1))
            THEN [Instruction("Alloca", group(1)[1], def, <<>>, "EQ", <<>>)
                  EXCEPT !.align = align(2)]
            ELSE IF /\ starts(<<" = load ", ", ptr ">>) /\ optionalAlign(3)
                    /\ isWord(group(1)) /\ isVReg(group(2))
            THEN [Instruction("Load", group(1)[1], def, <<parseOperand(group(2))>>, "EQ",
                              <<>>)
                  EXCEPT !.align = align(3)]
            ELSE IF /\ starts(<<" = call ", " @", "(">>) /\ lits[Len(lits)] = ")"
                    /\ to(Len(lits)) < from(Len(lits))
                    /\ isWord(group(1)) /\ group(2) # <<>>
            THEN Instruction("Call", group(1)[1], def, callArgs, "EQ", group(2))
            ELSE IF /\ lits = <<" = icmp ", " ", " ", ", ">>
                    /\ isWord(group(1)) /\ isWord(group(2))
                    /\ isVReg(group(3)) \/ isInt(group(3))
                    /\ isVReg(group(4)) \/ isInt(group(4))
            THEN Instruction("ICmp", group(2)[1], def,
                             <<parseOperand(group(3)), parseOperand(group(4))>>,
                             stringToCmpPred, <<>>)
            ELSE IF /\ lits \in {<<" = ", " nsw", " ", " ", ", ">>, <<" = ", " ", " ", ", ">>}
                    /\ Len(group(1)) = 1 /\ group(1)[1] \in DOMAIN arith
                    /\ isWord(group(typeAt))
                    /\ isVReg(group(typeAt + 1)) \/ isInt(group(typeAt + 1))
                    /\ isVReg(group(typeAt + 2)) \/ isInt(group(typeAt + 2))
            THEN Instruction(arith[group(1)[1]], group(typeAt)[1], def,
                             <<parseOperand(group(typeAt + 1)),
                               parseOperand(group(typeAt + 2))>>, "EQ", <<>>)
            ELSE retVoid
       ELSE retVoid

\* IRParser::parseModule(irText) with parseFunctionFromDefAndBody and
\* parseParameters: the functions of the Module it returns.
parseModule(irText) ==
    LET trim(line) == SelectSeq(line, LAMBDA t : t # "  ")
        isDefine(line) == trim(line) # <<>> /\ trim(line)[1] = "define dso_local "
        \* the lines of the text that open and close a function
        defines == {i \in DOMAIN irText : isDefine(irText[i])}
        closing(i) == {j \in i + 1 .. Len(irText) :
                          /\ trim(irText[j]) = <<"}">>
                          /\ \A k \in i + 1 .. j : ~isDefine(irText[k])}
        closed == {i \in defines : closing(i) # {}}
        end(i) == CHOOSE j \in closing(i) : \A k \in closing(i) : j <= k
        nth(k) == CHOOSE i \in closed : Cardinality({j \in closed : j <= i}) = k
        index(line, t) == CHOOSE i \in DOMAIN line : line[i] = t /\ \A j \in 1 .. i - 1 : line[j] # t
        has(line, t) == \E i \in DOMAIN line : line[i] = t
        name(def) == IF has(def, " @") /\ has(def, "(") /\ index(def, " @") < index(def, "(")
                     THEN SubSeq(def, index(def, " @") + 1, index(def, "(") - 1) ELSE <<>>
        returnType(def) == IF has(def, "void") /\ has(def, " @")
                              /\ index(def, "void") < index(def, " @")
                           THEN "void" ELSE "int"
        parseParameters(def) ==
            LET RECURSIVE upTo(_)
                upTo(i) == IF i = 0 THEN <<>>
                           ELSE upTo(i - 1)
                                \o (IF i > 1 /\ def[i - 1] = "i32 noundef %" /\ isDigits(def[i])
                                    THEN <<parseInt(def[i])>> ELSE <<>>)
            IN upTo(Len(def))
        isSkipped(line) == trim(line) = <<>> \/ trim(line)[1] = ";"
        isLabelLine(line) == trim(line)[Len(trim(line))] = ":"
        RECURSIVE blocks(_, _, _)
        \* the blocks after the lines i .. j of the body, blocks so far in bs
        blocks(bs, i, j) ==
            IF i > j THEN bs
            ELSE IF isSkipped(irText[i]) THEN blocks(bs, i + 1, j)
            ELSE IF isLabelLine(irText[i])
            THEN blocks(Append(bs, [name |-> SubSeq(trim(irText[i]), 1,
                                                    Len(trim(irText[i])) - 1),
                                    insts |-> <<>>]), i + 1, j)
            ELSE blocks([bs EXCEPT ![Len(bs)].insts = Append(@, parseInstruction(irText[i]))],
                        i + 1, j)
        function(i) ==
            LET def == trim(irText[i])
                bs == blocks(<<[name |-> <<"entry">>, insts |-> <<>>]>>, i + 1, end(i) - 1)
                used == Range(parseParameters(def))
                        \cup UNION {UNION {{defReg(bs[b].insts[k])}
                                           \cup Range(useRegs(bs[b].insts[k]))
                                           : k \in DOMAIN bs[b].insts} : b \in DOMAIN bs}
            IN [name |-> name(def), returnType |-> returnType(def),
                paramVregs |-> parseParameters(def), blocks |-> bs,
                maxVregId |-> IF used = {} THEN -1
                              ELSE CHOOSE m \in used \cup {-1} :
                                      \A r \in used \cup {-1} : r <= m]
    IN [k \in 1 .. Cardinality(closed) |-> function(nth(k))]

\* generateLLVMIR, after buildModule: the text of the module.
ModuleToString ==
    /\ ibPc = "done"
    /\ ibPc' = "ir"
    /\ llvmIR' = moduleToString(mod)
    /\ UNCHANGED <<funcs, mod, irBuilder, parsed>>
    /\ UNCHANGED <<raVars, cgVars, laVars>>

\* IRParser::parseModule on the text.
ParseModule ==
    /\ ibPc = "ir"
    /\ ibPc' = "parsed"
    /\ parsed' = parseModule(llvmIR)
    /\ UNCHANGED <<funcs, mod, irBuilder, llvmIR>>
    /\ UNCHANGED <<raVars, cgVars, laVars>>

(***************************************************************************)
(* IRBuilder: the programs built                                           *)
(***************************************************************************)
\* The deepest nesting of statements in a function body.
MaxDepth == 2

\* The statements nested at most d deep, with cond as every condition:
\* return 0, return cond, the expression statement cond, break, continue, if
\* with or without else, while, and a block of two statements.
RECURSIVE Stmts(_, _)
Stmts(d, cond) ==
    LET atoms == {[kind |-> "Return", expr |-> [kind |-> "Number", value |-> 0]],
                  [kind |-> "Return", expr |-> cond], cond,
                  [kind |-> "Break"], [kind |-> "Continue"]}
        inner == Stmts(d - 1, cond)
    IN IF d = 0 THEN atoms
       ELSE atoms
            \cup {[kind |-> "If", cond |-> cond, thenStmt |-> s, elseStmt |-> t]
                  : s \in inner, t \in inner \cup {[kind |-> "Null"]}}
            \cup {[kind |-> "While", cond |-> cond, body |-> s] : s \in inner}
            \cup {[kind |-> "Block", stmts |-> <<s, t>>] : s \in inner, t \in inner}

\* The deepest nesting of && and || in an expression.
MaxLogicalDepth == 2

\* The expressions with && and || nested at most d deep over a, a < 1 and a
\* call of callee; the calls of a left operand are of l and those of a right
\* operand are of r, so that r is only called in a right operand.
RECURSIVE Exprs(_, _)
Exprs(d, callee) ==
    LET a == [kind |-> "Identifier", name |-> "a"]
        atoms == {a, [kind |-> "Call", callee |-> callee, args |-> <<a>>],
                  [kind |-> "Binary", op |-> "<", lhs |-> a,
                   rhs |-> [kind |-> "Number", value |-> 1]]}
    IN IF d = 0 THEN atoms
       ELSE atoms \cup {[kind |-> "Binary", op |-> op, lhs |-> l, rhs |-> r]
                        : op \in {"&&", "||"}, l \in Exprs(d - 1, "l"),
                          r \in Exprs(d - 1, "r")}

\* The functions built: int f(int a) { s }, with a as every condition,
\* int main() { s }, with 1 as every condition, and int g(int a) { s } with
\* s one of  if (e) return 1;  while (e) break;  return e;  for every e with
\* && or ||.
FuncDefs ==
    {[retType |-> "int", name |-> "f", params |-> <<"a">>,
      body |-> [kind |-> "Block", stmts |-> <<s>>]]
     : s \in Stmts(MaxDepth, [kind |-> "Identifier", name |-> "a"])}
    \cup {[retType |-> "int", name |-> "main", params |-> <<>>,
           body |-> [kind |-> "Block", stmts |-> <<s>>]]
          : s \in Stmts(MaxDepth, [kind |-> "Number", value |-> 1])}
    \cup {[retType |-> "int", name |-> "g", params |-> <<"a">>,
           body |-> [kind |-> "Block", stmts |-> <<s>>]]
          : s \in UNION {{[kind |-> "If", cond |-> e,
                           thenStmt |-> [kind |-> "Return",
                                         expr |-> [kind |-> "Number", value |-> 1]],
                           elseStmt |-> [kind |-> "Null"]],
                          [kind |-> "While", cond |-> e, body |-> [kind |-> "Break"]],
                          [kind |-> "Return", expr |-> e]}
                         : e \in Exprs(MaxLogicalDepth, "l") \ Exprs(0, "l")}}

\* An IRBuilder has been constructed (its constructor enters the first
\* scope) and buildModule is called on one function.
BuildInit ==
    /\ ibPc = "start"
    /\ \E f \in FuncDefs : funcs = <<f>>
    /\ mod = <<>>
    /\ irBuilder = [vregCounter_ |-> 0, labelCounter_ |-> 0, currentFuncName_ |-> "",
                    isMainFunction_ |-> FALSE, hasReturn_ |-> FALSE, blocks |-> <<>>,
                    currentBB_ |-> 0, scopeStack_ |-> <<EmptyMap>>,
                    loadedValues_ |-> EmptyMap, trace_ |-> <<>>, breakLabels_ |-> <<>>,
                    continueLabels_ |-> <<>>]
    /\ llvmIR = <<>>
    /\ parsed = <<>>
    /\ AllocIdle
    /\ CodeGenIdle
    /\ LiveIdle

BuildNext ==
    \/ BuildModule
    \/ BuildFunction
    \/ ModuleToString
    \/ ParseModule

SpecBuild == BuildInit /\ [][BuildNext]_vars

\* The most statements in the body of a function with declarations.
MaxStmts == 3

\* The functions with declarations: int f(int a) { s1 ... sn } where a
\* statement is  a;  int a = 1;  a = 1;  return a;  or a block of two of
\* these.
ScopeFuncDefs ==
    LET a == [kind |-> "Identifier", name |-> "a"]
        one == [kind |-> "Number", value |-> 1]
        atoms == {a, [kind |-> "Decl", name |-> "a", expr |-> one],
                  [kind |-> "Assign", name |-> "a", expr |-> one],
                  [kind |-> "Return", expr |-> a]}
        stmts == atoms \cup {[kind |-> "Block", stmts |-> <<x, y>>] : x \in atoms, y \in atoms}
    IN {[retType |-> "int", name |-> "f", params |-> <<"a">>,
         body |-> [kind |-> "Block", stmts |-> body]]
        : body \in UNION {[1 .. n -> stmts] : n \in 1 .. MaxStmts}}

\* An IRBuilder has been constructed and buildModule is called on one
\* function with declarations.
ScopeInit ==
    /\ ibPc = "start"
    /\ \E f \in ScopeFuncDefs : funcs = <<f>>
    /\ mod = <<>>
    /\ irBuilder = [vregCounter_ |-> 0, labelCounter_ |-> 0, currentFuncName_ |-> "",
                    isMainFunction_ |-> FALSE, hasReturn_ |-> FALSE, blocks |-> <<>>,
                    currentBB_ |-> 0, scopeStack_ |-> <<EmptyMap>>,
                    loadedValues_ |-> EmptyMap, trace_ |-> <<>>, breakLabels_ |-> <<>>,
                    continueLabels_ |-> <<>>]
    /\ llvmIR = <<>>
    /\ parsed = <<>>
    /\ AllocIdle
    /\ CodeGenIdle
    /\ LiveIdle

ScopeNext ==
    \/ BuildModule
    \/ BuildFunction

SpecScope == ScopeInit /\ [][ScopeNext]_vars

\* buildModule(funcs) is called a second time, with the FuncDefs that the
\* first call was given; the text of the first module is still at hand.
LowerAgain ==
    /\ ibPc = "ir"
    /\ ibPc' = "start"
    /\ UNCHANGED <<funcs, mod, irBuilder, llvmIR, parsed>>
    /\ UNCHANGED <<raVars, cgVars, laVars>>

RelowerNext ==
    \/ BuildModule
    \/ BuildFunction
    \/ ModuleToString
    \/ LowerAgain

SpecRelower == BuildInit /\ [][RelowerNext]_vars

(***************************************************************************)
(* IRParser: the texts read from a .ll file                                *)
(***************************************************************************)
\* The most lines in the body of the function of a text.
MaxLines == 2

\* Lines that are no instruction, no label and no comment:
\*   this is not an instruction
\*   %1 = foo i32 %0, 1
\*   store i32 x, ptr %1
\*   br i1 1, label %b1, label %b1
MalformedLines ==
    {<<"  ", "this is not an instruction">>,
     <<"  ", "%", "1", " = ", "foo", " ", "i32", " ", "%", "0", ", ", "1">>,
     <<"  ", "store ", "i32", " ", "x", ", ptr ", "%", "1">>,
     <<"  ", "br i1 ", "1", ", label ", "%", "b1", ", label ", "%", "b1">>}

\* The texts read: define dso_local i32 @f(i32 noundef %0) #0 { ... } with up
\* to MaxLines lines, malformed ones or
\*   %1 = add nsw i32 %0, 1     %1 = alloca i32     ret i32 %0
\*   store i32 %0, ptr %1, align 4     br label %b1     br label %nowhere
\*   b1:     ; a comment
IRTexts ==
    LET lines == MalformedLines
                 \cup {<<"  ", "%", "1", " = ", "add", " nsw", " ", "i32", " ", "%", "0", ", ",
                          "1">>,
                        <<"  ", "%", "1", " = alloca ", "i32">>,
                        <<"  ", "ret ", "i32", " ", "%", "0">>,
                        <<"  ", "store ", "i32", " ", "%", "0", ", ptr ", "%", "1",
                          ", align ", "4">>,
                        <<"  ", "br label ", "%", "b1">>,
                        <<"  ", "br label ", "%", "nowhere">>,
                        <<"b1", ":">>, <<";", " a comment">>}
        define == <<"define dso_local ", "i32", " @", "f", "(", "i32 noundef %", "0",
                    ") #0 {">>
    IN UNION {{<<define>> \o body \o <<<<"}">>>> : body \in [1 .. n -> lines]}
              : n \in 1 .. MaxLines}

\* An IRParser is given the text of a .ll file.
ParseInit ==
    /\ ibPc = "ir"
    /\ llvmIR \in IRTexts
    /\ parsed = <<>>
    /\ funcs = <<>>
    /\ mod = <<>>
    /\ irBuilder = EmptyMap
    /\ AllocIdle
    /\ CodeGenIdle
    /\ LiveIdle

ParseNext == ParseModule

SpecParse == ParseInit /\ [][ParseNext]_vars

(***************************************************************************)
(* IRBuilder: properties                                                   *)
(***************************************************************************)
\* C10 (I1, terminators): in every function that buildModule produced, every
\* non-empty block has exactly one terminator (Br, CondBr, Ret or RetVoid)
\* and it is the last instruction of the block; so no instruction was
\* appended to a block after a terminator.
C10_OneTerminatorLast ==
    ibPc = "done" =>
        \A f \in DOMAIN mod : \A k \in DOMAIN mod[f].blocks :
            LET insts == mod[f].blocks[k].insts
            IN insts # <<>> =>
                 \A i \in DOMAIN insts : isTerminator(insts[i]) <=> i = Len(insts)

\* C11 (return completion): in every function that buildFunction produced,
\* the last block is non-empty and its last instruction is a terminator.
C11_LastBlockTerminated ==
    ibPc = "done" =>
        \A f \in DOMAIN mod :
            LET last == mod[f].blocks[Len(mod[f].blocks)].insts
            IN last # <<>> /\ isTerminator(last[Len(last)])

\* C12 (load cache at loops): in every function that buildModule produced, an
\* instruction of a while_cond, while_body or while_end block that uses the
\* result of a Load uses a Load of its own block.
C12_NoLoadReuseAcrossLoopBlocks ==
    ibPc = "done" =>
        \A f \in DOMAIN mod : \A k, j \in DOMAIN mod[f].blocks :
            LET user == mod[f].blocks[k]
                loader == mod[f].blocks[j]
            IN (/\ user.name[1] \in {"while_cond", "while_body", "while_end"}
                /\ k # j)
               => \A u \in DOMAIN user.insts : \A l \in DOMAIN loader.insts :
                      loader.insts[l].opcode = "Load"
                      => defReg(loader.insts[l]) \notin Range(useRegs(user.insts[u]))

C15_RoundTrip ==
    ibPc = "parsed" => moduleToString(parsed) = llvmIR

\* C14 (malformed IR): when the text holds a line that is no instruction, the
\* parser returns no function of it.
C14_MalformedRejected ==
    (ibPc = "parsed" /\ \E i \in DOMAIN llvmIR : llvmIR[i] \in MalformedLines)
    => parsed = <<>>

\* C16 (spilling across a call): when allocate has returned, at every
\* position where 20 or more VRegs are live before and after it (the position
\* of a Call they are live across), at least 9 of them are in spill slots,
\* at negative offsets of vregToStack.
C16_SpillsAcrossCall ==
    raPc = "done" =>
        \A p \in 0 .. Horizon :
            LET across == {v \in DOMAIN intervals : ivStart(v) < p /\ p < ivEnd(v)}
            IN Cardinality(across) >= 20
               => Cardinality({v \in across : v \in DOMAIN vregToStack
                                               /\ vregToStack[v] < 0}) >= 20 - 11

\* C17 (registers come back): during the scan, once the intervals of the
\* parameters have been visited, every allocatable register is in the free
\* set, or assigned by vregToPhys to a VReg whose interval is in active_, or
\* bound to a parameter that has no interval at all.
C17_FreeOrActive ==
    (raPc = "scan" /\ Range(paramVregs) \cap sorted = {}) =>
        \A r \in allocatableRegs :
            \/ r \in freePhysRegs_
            \/ \E k \in DOMAIN active_ :
                  active_[k] \in DOMAIN vregToPhys /\ vregToPhys[active_[k]] = r
            \/ \E v \in Range(paramVregs) \ DOMAIN intervals :
                  v \in DOMAIN vregToPhys /\ vregToPhys[v] = r

\* C18 (spill heuristic): in every step of the scan that visits an interval
\* cur while the free set is empty, with v an active interval of the greatest
\* end: if v ends after cur, then afterwards v is in vregToStack only, with a
\* slot that no VReg had before, cur is in vregToPhys with the register that
\* vregToPhys gave v, v is out of active_ and active_ is sorted by end;
\* otherwise cur is in vregToStack with such a slot and every other
\* assignment is as before.
C18_SpillAtInterval ==
    [][\A cur \in sorted :
          (/\ IsNext(cur) /\ sorted' = sorted \ {cur}
           /\ cur \notin allocatedVregs_
           /\ freeAfterExpire(cur) = {})
          => LET act == activeAfterExpire(cur)
                 latest == {v \in Range(act) : \A w \in Range(act) : ivEnd(w) <= ivEnd(v)}
                 fresh(slot) == slot \notin Range(vregToStack)
             IN IF \E v \in latest : ivEnd(v) > ivEnd(cur)
                THEN \E v \in latest :
                        /\ v \notin DOMAIN vregToPhys'
                        /\ v \in DOMAIN vregToStack' /\ fresh(vregToStack'[v])
                        /\ cur \in DOMAIN vregToPhys'
                        /\ vregToPhys'[cur] = vregToPhys[v]
                        /\ v \notin Range(active_')
                        /\ ActiveSorted(active_')
                        /\ \A w \in DOMAIN vregToPhys \ {v} :
                              w \in DOMAIN vregToPhys' /\ vregToPhys'[w] = vregToPhys[w]
                ELSE /\ cur \in DOMAIN vregToStack' /\ fresh(vregToStack'[cur])
                     /\ vregToPhys' = vregToPhys
                     /\ \A w \in DOMAIN vregToStack :
                           w \in DOMAIN vregToStack' /\ vregToStack'[w] = vregToStack[w]
                     /\ active_' = act]_vars

\* C19 (register ids): every value of vregToPhys, during the scan and in the
\* result, is the id of one of the 24 allocatable registers.
C19_AllocatableIds ==
    /\ Cardinality(allocatableRegs) = 24
    /\ \A v \in DOMAIN vregToPhys : vregToPhys[v] \in allocatableRegs


\* The caller has run to its ret: every callee-saved register that
\* vregToPhys assigns holds what it held on entry, and sp is the caller's.
CalleeSavedKept ==
    cgPc = "done" =>
        /\ regs["sp"] = [tag |-> "addr", n |-> 0]
        /\ \A v \in DOMAIN alloc.vregToPhys :
              isCalleeSaved(alloc.vregToPhys[v]) =>
                  regs[getRegName(alloc.vregToPhys[v])]
                      = [tag |-> "init", n |-> alloc.vregToPhys[v]]


\* The allocator has returned: every callee-saved register that vregToPhys
\* assigns is in result_.calleeSavedRegs.
CalleeSavedRecorded ==
    raPc = "done" =>
        \A v \in DOMAIN vregToPhys :
            isCalleeSaved(vregToPhys[v]) => vregToPhys[v] \in calleeSavedRegs

\* C20 (callee-saved registers): in the text of every generated function,
\* each callee-saved register (s1-s11) that vregToPhys assigns to a VReg is
\* in calleeSavedRegs, is stored by the prologue (the lines after the
\* function's label that lower sp and store registers) at an offset from sp,
\* and is loaded from the same offset by the epilogue in front of every ret
\* of the function.
C20_CalleeSavedSavedAndRestored ==
    LET textAt(p, t) == /\ p >= 1
                        /\ p + Len(t) - 1 <= Len(output_)
                        /\ SubSeq(output_, p, p + Len(t) - 1) = t
        labelPos(name) == find(output_, <<"\n">> \o name \o <<":", "\n">>)
        bodyPos(name) == labelPos(name) + Len(name) + 3
        sizePos(name) == find(output_, <<"    .size ">> \o name \o <<",">>)
        opcodes(p, q) == {output_[k + 1] : k \in {j \in p .. q - 1 : output_[j] = "    "}}
        storedAt(name, r, off) ==
            \E p \in bodyPos(name) .. sizePos(name) :
                /\ textAt(p, emit(<<"sw ", getRegName(r), ", ", ToString(off), "(sp)">>))
                /\ textAt(bodyPos(name), <<"    ", "addi ", "sp", ", ", "sp", ", ">>)
                /\ opcodes(bodyPos(name), p) \subseteq {"addi ", "sw "}
        loadedAt(name, r, off) ==
            \A q \in bodyPos(name) .. sizePos(name) :
                textAt(q, emit(<<"ret">>)) =>
                    \E p \in bodyPos(name) .. q :
                        /\ textAt(p, emit(<<"lw ", getRegName(r), ", ", ToString(off), "(sp)">>))
                        /\ opcodes(p, q) \subseteq {"addi ", "lw "}
    IN cgPc = "generated" =>
        \A i \in DOMAIN module_ :
            LET name == module_[i].name
                a == funcAllocators_[name]
            IN \A v \in DOMAIN a.vregToPhys :
                  isCalleeSaved(a.vregToPhys[v]) =>
                      /\ a.vregToPhys[v] \in Range(a.calleeSavedRegs)
                      /\ labelPos(name) # 0
                      /\ sizePos(name) # 0
                      /\ \E off \in 0 .. 64 :
                            /\ storedAt(name, a.vregToPhys[v], off)
                            /\ loadedAt(name, a.vregToPhys[v], off)


\* C25 (CFG edges of branches): in every function that IRBuilder produced,
\* after buildCFG each block that a Br or CondBr instruction names is among
\* the successors of the block that contains the instruction.
C25_BranchTargetsAreSuccessors ==
    ibPc = "done" =>
        \A f \in DOMAIN mod :
            LET blocks == mod[f].blocks
                succ == buildCFG(blocks)
            IN \A b \in DOMAIN blocks : \A i \in DOMAIN blocks[b].insts :
                  blocks[b].insts[i].opcode \in {"Br", "CondBr"} =>
                      \A t \in Range(branchTargets(blocks[b].insts[i])) :
                          \E k \in DOMAIN succ[b] : blocks[succ[b][k]].name = t


\* C26 (termination of the liveness iteration): computeLivenessIteratively
\* terminates, from one pass to the next liveIn and liveOut of every block
\* only grow, and once the loop has ended every block of rpoOrder has
\* liveOut = the union of liveIn of its successors and
\* liveIn = useSet \cup (liveOut \ defSet).
C26_LivenessTerminatesAtFixpoint ==
    /\ [][laPc = "solve" =>
            \A b \in DOMAIN liveIn : liveIn[b] \subseteq liveIn'[b]
                                     /\ liveOut[b] \subseteq liveOut'[b]]_vars
    /\ [](laPc \in {"number", "build", "done"} =>
            \A k \in DOMAIN rpoOrder :
                LET bb == rpoOrder[k]
                IN /\ liveOut[bb] = UNION {liveIn[succs[bb][j]] : j \in DOMAIN succs[bb]}
                   /\ liveIn[bb] = useSet[bb] \cup (liveOut[bb] \ defSet[bb]))
    /\ (laPc = "solve") ~> (laPc = "number")

\* The loop has ended on a function with a cycle, in which a VReg is live
\* around the cycle.
C26_Witness ==
    /\ laPc = "number"
    /\ \E b \in DOMAIN succs :
          /\ \E k \in DOMAIN succs[b] : succs[b][k] <= b
          /\ liveOut[b] # {}
          /\ liveIn[b] # useSet[b]


\* The blocks that the block b reaches by one or more edges of succs.
reaches(b) ==
    LET RECURSIVE grow(_)
        grow(S) == LET more == S \cup UNION {Range(succs[u]) : u \in S}
                   IN IF more = S THEN S ELSE grow(more)
    IN grow(Range(succs[b]))

\* C27 (reverse post-order): rpoOrder holds every block reachable from the
\* entry exactly once and no other block, starts with the entry, and places
\* u before v for every edge u -> v that is not a back edge of the traversal
\* (v is neither u nor an ancestor of u); when no block reaches itself,
\* every block comes after all of its predecessors.
C27_ReversePostOrder ==
    laPc \in {"solve", "number", "build", "done"} =>
        LET place(b) == CHOOSE k \in DOMAIN rpoOrder : rpoOrder[k] = b
            reachable == {1} \cup reaches(1)
            ancestors == dfs(succs, <<[bb |-> 1, processed |-> FALSE]>>, {}, <<>>, <<>>).ancestors
            edges == {e \in reachable \X reachable : e[2] \in Range(succs[e[1]])}
        IN /\ Range(rpoOrder) = reachable
           /\ Len(rpoOrder) = Cardinality(reachable)
           /\ rpoOrder[1] = 1
           /\ \A e \in edges :
                 e[2] \notin ancestors[e[1]] \cup {e[1]} => place(e[1]) < place(e[2])
           /\ (\A b \in reachable : b \notin reaches(b)) =>
                 \A e \in edges : place(e[1]) < place(e[2])

\* The order has been built for a function with a cycle and with a block
\* that two blocks branch to, one of them after the other in the traversal.
C27_Witness ==
    /\ laPc = "solve"
    /\ Len(rpoOrder) = MaxBlocks
    /\ \E b \in DOMAIN succs : b \in reaches(b)
    /\ \E u \in DOMAIN succs, v \in DOMAIN succs, w \in DOMAIN succs :
          /\ u # v /\ u # w /\ v # w
          /\ w \in Range(succs[u]) /\ w \in Range(succs[v])


\* The positions that a list of ranges covers, by LiveInterval::contains.
covered(ranges) == {pos \in 0 .. MaxPos : contains(ranges, pos)}

\* C28 (addRange): after any sequence of addRange(s, e) with s <= e the
\* ranges are sorted by start, pairwise disjoint and non-adjacent (each
\* next.start > previous.end + 1), and every call adds exactly the positions
\* of [s, e] to the positions covered, so that the ranges, empty at first,
\* cover the union of the [s, e] added.
C28_RangesSortedDisjointExact ==
    /\ [](laPc = "interval" =>
            LET ranges == liveIntervals[0]
            IN /\ \A k \in DOMAIN ranges : ranges[k].start <= ranges[k].end
               /\ \A k \in 1 .. Len(ranges) - 1 : ranges[k + 1].start > ranges[k].end + 1)
    /\ covered(liveIntervals[0]) = {}
    /\ [][laPc = "interval" =>
            \E s \in 0 .. MaxPos : \E e \in s .. MaxPos :
                /\ liveIntervals'[0] = addRange(liveIntervals[0], s, e)
                /\ covered(liveIntervals'[0]) = covered(liveIntervals[0]) \cup (s .. e)]_vars

\* The interval holds two ranges, the second of which spans at least five
\* positions.
C28_Witness ==
    /\ laPc = "interval"
    /\ Len(liveIntervals[0]) = 2
    /\ liveIntervals[0][2].end - liveIntervals[0][2].start >= 4


\* C29 (the result depends only on F): allocate(F) on an allocator that has
\* already allocated another function returns the vregToPhys, vregToStack,
\* usedPhysRegs and calleeSavedRegs that a freshly constructed allocator
\* returned for F.
C29_ResultDependsOnlyOnF ==
    (raPc = "done" /\ Len(caller) = 2) => result_ = caller[1].result


\* C30 (the AST is left alone): no step of buildModule changes the FuncDefs
\* it is given, parameter names included, and the text of the module of a
\* second lowering of the same FuncDefs is the text of the first.
C30_AstUnchangedSameText ==
    [][/\ funcs' = funcs
       /\ llvmIR # <<>> => llvmIR' = llvmIR]_vars


\* C24 (load cache): whenever buildExpr answers an identifier from the load
\* cache, the cached VReg was defined by a Load from the alloca slot that
\* findVariable resolves the name to, and no Store to that slot was emitted
\* since that Load; scopes entered and left, and blocks that declare a
\* variable of the same name, included.
C24_CacheHitIsFreshLoadOfSlot ==
    ibPc = "done" =>
        LET trace == irBuilder.trace_
        IN \A k \in DOMAIN trace :
              trace[k].kind = "Hit" =>
                  \E j \in 1 .. k - 1 :
                      /\ trace[j].kind = "Load"
                      /\ trace[j].value = trace[k].value
                      /\ trace[j].slot = trace[k].slot
                      /\ \A i \in j + 1 .. k - 1 :
                            ~(trace[i].kind = "Store" /\ trace[i].slot = trace[k].slot)

(***************************************************************************)
(* RISCVCodeGen: genStore, genLoad, genICmp, genCondBr, genBr              *)
(***************************************************************************)
\* getAllocaOffset(vreg).
getAllocaOffset(v) ==
    IF v \in DOMAIN allocaOffsets_ THEN allocaOffsets_[v] + frameOverhead_ ELSE 0

\* "-" + std::to_string(offset) + "(s0)": the operand that addresses a local.
localOperand(offset) == <<"-" \o ToString(offset), "(s0)">>

\* genStore(inst): ops[0] is the value and ops[1] the alloca; sb when the
\* type of the store is i1, sw otherwise.
genStore(inst, counter) ==
    LET val == resolveUse(inst.ops[1], counter)
    IN [out |-> val.out
                \o emit(<<IF inst.type = "i1" THEN "sb " ELSE "sw ", val.reg, ", ">>
                        \o localOperand(getAllocaOffset(inst.ops[2].value))),
        counter |-> val.counter]

\* genLoad(inst): lb when the type of the load is i1, lw otherwise; then
\* spillDefIfNeeded.
genLoad(inst, counter) ==
    LET def == resolveDef(inst.def, counter)
    IN [out |-> emit(<<IF inst.type = "i1" THEN "lb " ELSE "lw ", def.reg, ", ">>
                     \o localOperand(getAllocaOffset(inst.ops[1].value)))
                \o spillDefIfNeeded(inst, def.reg),
        counter |-> def.counter,
        lastDef |-> def.reg]

\* genICmp(inst): the operands are resolved, then the def; the CmpInfo kept
\* in cmpMap_ names the registers of the operands; the instructions that
\* leave the truth value in the def's register follow, then spillDefIfNeeded.
genICmp(inst, counter) ==
    LET lhs == resolveUse(inst.ops[1], counter)
        rhs == resolveUse(inst.ops[2], lhs.counter)
        def == resolveDef(inst.def, rhs.counter)
        three(op, x, y) == emit(<<op, def.reg, ", ", x, ", ", y>>)
        two(op) == emit(<<op, def.reg, ", ", def.reg>>)
    IN [out |-> lhs.out \o rhs.out
                \o (CASE inst.cmpPred = "EQ" -> three("sub ", lhs.reg, rhs.reg) \o two("seqz ")
                      [] inst.cmpPred = "NE" -> three("sub ", lhs.reg, rhs.reg) \o two("snez ")
                      [] inst.cmpPred = "SLT" -> three("slt ", lhs.reg, rhs.reg)
                      [] inst.cmpPred = "SGT" -> three("slt ", rhs.reg, lhs.reg)
                      [] inst.cmpPred = "SLE" ->
                            three("slt ", rhs.reg, lhs.reg) \o three("xori ", def.reg, "1")
                      [] inst.cmpPred = "SGE" ->
                            three("slt ", lhs.reg, rhs.reg) \o three("xori ", def.reg, "1"))
                \o spillDefIfNeeded(inst, def.reg),
        counter |-> def.counter,
        lastDef |-> def.reg,
        cmp |-> [pred |-> inst.cmpPred, lhsReg |-> lhs.reg, rhsReg |-> rhs.reg]]

\* "." + currentFunction_ + "_" + labelName: the label of a block.
blockLabel(name) == <<".">> \o func.name \o <<"_">> \o name

\* genCondBr(inst): the fused branch on the registers of the CmpInfo when
\* cmpMap_ has the condition, whose entry is erased; bnez on the condition
\* otherwise.
genCondBr(inst, counter) ==
    LET trueLabel == blockLabel(inst.ops[2].label)
        falseLabel == blockLabel(inst.ops[3].label)
        condVreg == IF inst.ops[1].kind = "VReg" THEN inst.ops[1].value ELSE -1
        cond == resolveUse(inst.ops[1], counter)
        brOp(pred) == CASE pred = "EQ" -> "beq " [] pred = "NE" -> "bne "
                        [] pred = "SLT" -> "blt " [] pred = "SGT" -> "bgt "
                        [] pred = "SLE" -> "ble " [] pred = "SGE" -> "bge "
    IN IF condVreg \in DOMAIN cmpMap_
       THEN [out |-> emit(<<brOp(cmpMap_[condVreg].pred), cmpMap_[condVreg].lhsReg, ", ",
                            cmpMap_[condVreg].rhsReg, ", ">> \o trueLabel)
                     \o emit(<<"j ">> \o falseLabel),
             counter |-> counter,
             cmpMap |-> MapErase(cmpMap_, condVreg)]
       ELSE [out |-> cond.out \o emit(<<"bnez ", cond.reg, ", ">> \o trueLabel)
                     \o emit(<<"j ">> \o falseLabel),
             counter |-> cond.counter,
             cmpMap |-> cmpMap_]

\* genBr(inst).
genBr(inst) == emit(<<"j ">> \o blockLabel(inst.ops[1].label))

\* generateInst() on a Store: genStore.
GenStore ==
    /\ nextItem.opcode = "Store"
    /\ output_' = output_ \o genStore(nextItem, spillTempCounter_).out
    /\ spillTempCounter_' = genStore(nextItem, spillTempCounter_).counter
    /\ cgInst' = cgInst + 1
    /\ UNCHANGED <<cgPc, module_, funcAllocators_, cgFunc, allocaOffsets_, stackOffset_,
                   totalStackSize_, frameOverhead_, callSaveSize_, callArgAreaSize_,
                   lastDefRegName_, cmpMap_, regs, mem, ip, entry>>
    /\ UNCHANGED <<raVars, laVars, ibVars>>

\* generateInst() on a Load: genLoad.
GenLoad ==
    /\ nextItem.opcode = "Load"
    /\ output_' = output_ \o genLoad(nextItem, spillTempCounter_).out
    /\ spillTempCounter_' = genLoad(nextItem, spillTempCounter_).counter
    /\ lastDefRegName_' = genLoad(nextItem, spillTempCounter_).lastDef
    /\ cgInst' = cgInst + 1
    /\ UNCHANGED <<cgPc, module_, funcAllocators_, cgFunc, allocaOffsets_, stackOffset_,
                   totalStackSize_, frameOverhead_, callSaveSize_, callArgAreaSize_,
                   cmpMap_, regs, mem, ip, entry>>
    /\ UNCHANGED <<raVars, laVars, ibVars>>

\* generateInst() on an ICmp: genICmp.
GenICmp ==
    /\ nextItem.opcode = "ICmp"
    /\ output_' = output_ \o genICmp(nextItem, spillTempCounter_).out
    /\ spillTempCounter_' = genICmp(nextItem, spillTempCounter_).counter
    /\ lastDefRegName_' = genICmp(nextItem, spillTempCounter_).lastDef
    /\ cmpMap_' = MapPut(cmpMap_, defReg(nextItem), genICmp(nextItem, spillTempCounter_).cmp)
    /\ cgInst' = cgInst + 1
    /\ UNCHANGED <<cgPc, module_, funcAllocators_, cgFunc, allocaOffsets_, stackOffset_,
                   totalStackSize_, frameOverhead_, callSaveSize_, callArgAreaSize_,
                   regs, mem, ip, entry>>
    /\ UNCHANGED <<raVars, laVars, ibVars>>

\* generateInst() on a CondBr: genCondBr.
GenCondBr ==
    /\ nextItem.opcode = "CondBr"
    /\ output_' = output_ \o genCondBr(nextItem, spillTempCounter_).out
    /\ spillTempCounter_' = genCondBr(nextItem, spillTempCounter_).counter
    /\ cmpMap_' = genCondBr(nextItem, spillTempCounter_).cmpMap
    /\ cgInst' = cgInst + 1
    /\ UNCHANGED <<cgPc, module_, funcAllocators_, cgFunc, allocaOffsets_, stackOffset_,
                   totalStackSize_, frameOverhead_, callSaveSize_, callArgAreaSize_,
                   lastDefRegName_, regs, mem, ip, entry>>
    /\ UNCHANGED <<raVars, laVars, ibVars>>

\* generateInst() on a Br: genBr.
GenBr ==
    /\ nextItem.opcode = "Br"
    /\ output_' = output_ \o genBr(nextItem)
    /\ cgInst' = cgInst + 1
    /\ UNCHANGED <<cgPc, module_, funcAllocators_, cgFunc, allocaOffsets_, stackOffset_,
                   totalStackSize_, frameOverhead_, callSaveSize_, callArgAreaSize_,
                   spillTempCounter_, lastDefRegName_, cmpMap_, regs, mem, ip, entry>>
    /\ UNCHANGED <<raVars, laVars, ibVars>>

(***************************************************************************)
(* The RV32 machine: numbers, bytes and branches                           *)
(***************************************************************************)
\* A register or a word that holds a known number has the tag "imm" and the
\* number as a signed 32-bit integer.  sb writes the low byte of a register
\* and leaves the other bytes of the word alone: the word is then tagged
\* "byte" with the byte written (0 .. 255), its other bytes unknown.  An
\* instruction that computes with an unknown value leaves "junk".
number(n) == [tag |-> "imm", n |-> n]
isNumber(v) == v.tag = "imm"
junk == [tag |-> "junk", n |-> 0]

\* a - b in 32 bits: the halves of the operands are subtracted with a
\* borrow, and the difference is read as a signed integer.
sub32(a, b) ==
    LET lo(x) == x % 65536
        hi(x) == (x \div 65536) % 65536
        borrow == IF lo(a) < lo(b) THEN 1 ELSE 0
        low == (lo(a) - lo(b)) % 65536
        high == (hi(a) - hi(b) - borrow) % 65536
    IN (IF high >= 32768 THEN high - 65536 ELSE high) * 65536 + low

\* The byte at the lowest address of a word in memory (RV32 is little-endian).
lowByte(w) == IF w.tag = "byte" THEN w.n ELSE w.n % 256

\* lb: the byte, sign-extended.
signExtend8(b) == IF b >= 128 THEN b - 256 ELSE b

\* The line at ip from its token k on, without the line break: the label a
\* branch names.  The label's own line is "<label>:".
targetAt(k) == SubSeq(output_, k, nextLine - 2)
labelLine(name) == find(output_, <<"\n">> \o name \o <<":", "\n">>) + 1

\* sub rd, rs1, rs2; slt rd, rs1, rs2; seqz rd, rs; snez rd, rs;
\* xori rd, rs, 1.
ExecAlu ==
    /\ opcodeAtIp \in {"sub ", "slt ", "seqz ", "snez ", "xori "}
    /\ LET a == regs[output_[ip + 4]]
           b == IF opcodeAtIp \in {"sub ", "slt "} THEN regs[output_[ip + 6]]
                ELSE IF opcodeAtIp = "xori " THEN number(parseInt(output_[ip + 6]))
                ELSE number(0)
           result == CASE opcodeAtIp = "sub " -> sub32(a.n, b.n)
                       [] opcodeAtIp = "slt " -> IF a.n < b.n THEN 1 ELSE 0
                       [] opcodeAtIp = "seqz " -> IF a.n = 0 THEN 1 ELSE 0
                       [] opcodeAtIp = "snez " -> IF a.n # 0 THEN 1 ELSE 0
                       [] opcodeAtIp = "xori " -> IF a.n % 2 = 0 THEN a.n + 1 ELSE a.n - 1
       IN regs' = [regs EXCEPT ![output_[ip + 2]] =
                      IF isNumber(a) /\ isNumber(b) /\ (opcodeAtIp = "xori " => b.n = 1)
                      THEN number(result) ELSE junk]
    /\ ip' = nextLine
    /\ UNCHANGED <<cgPc, module_, funcAllocators_, cgFunc, cgInst, output_, allocaOffsets_,
                   stackOffset_, totalStackSize_, frameOverhead_, callSaveSize_,
                   callArgAreaSize_, spillTempCounter_, lastDefRegName_, cmpMap_, mem, entry>>
    /\ UNCHANGED <<raVars, laVars, ibVars>>

\* beq, bne, blt, bgt, ble, bge rs1, rs2, label; bnez rs, label; j label.  A
\* branch on an unknown value may go either way.
ExecBranch ==
    /\ opcodeAtIp \in {"beq ", "bne ", "blt ", "bgt ", "ble ", "bge ", "bnez ", "j "}
    /\ LET op == opcodeAtIp
           a == IF op = "j " THEN number(0) ELSE regs[output_[ip + 2]]
           b == IF op \in {"j ", "bnez "} THEN number(0) ELSE regs[output_[ip + 4]]
           target == targetAt(ip + (CASE op = "j " -> 2 [] op = "bnez " -> 4 [] OTHER -> 6))
           holds == CASE op = "j " -> TRUE
                      [] op = "bnez " -> a.n # 0
                      [] op = "beq " -> a.n = b.n
                      [] op = "bne " -> a.n # b.n
                      [] op = "blt " -> a.n < b.n
                      [] op = "bgt " -> a.n > b.n
                      [] op = "ble " -> a.n <= b.n
                      [] op = "bge " -> a.n >= b.n
       IN \E taken \in (IF isNumber(a) /\ isNumber(b) THEN {holds} ELSE BOOLEAN) :
             ip' = IF taken THEN labelLine(target) ELSE nextLine
    /\ UNCHANGED <<cgPc, module_, funcAllocators_, cgFunc, cgInst, output_, allocaOffsets_,
                   stackOffset_, totalStackSize_, frameOverhead_, callSaveSize_,
                   callArgAreaSize_, spillTempCounter_, lastDefRegName_, cmpMap_, regs, mem,
                   entry>>
    /\ UNCHANGED <<raVars, laVars, ibVars>>

\* sb rs, off(base): the low byte of rs goes to the byte at the address.
ExecSb ==
    /\ opcodeAtIp = "sb "
    /\ mem' = MapPut(mem, addressAt(ip + 4),
                     IF isNumber(regs[output_[ip + 2]])
                     THEN [tag |-> "byte", n |-> regs[output_[ip + 2]].n % 256]
                     ELSE junk)
    /\ ip' = nextLine
    /\ UNCHANGED <<cgPc, module_, funcAllocators_, cgFunc, cgInst, output_, allocaOffsets_,
                   stackOffset_, totalStackSize_, frameOverhead_, callSaveSize_,
                   callArgAreaSize_, spillTempCounter_, lastDefRegName_, cmpMap_, regs, entry>>
    /\ UNCHANGED <<raVars, laVars, ibVars>>

\* lb rd, off(base): the byte at the address, sign-extended.
ExecLb ==
    /\ opcodeAtIp = "lb "
    /\ LET w == read(mem, addressAt(ip + 4))
       IN regs' = [regs EXCEPT ![output_[ip + 2]] =
                      IF w.tag \in {"imm", "byte"} THEN number(signExtend8(lowByte(w)))
                      ELSE junk]
    /\ ip' = nextLine
    /\ UNCHANGED <<cgPc, module_, funcAllocators_, cgFunc, cgInst, output_, allocaOffsets_,
                   stackOffset_, totalStackSize_, frameOverhead_, callSaveSize_,
                   callArgAreaSize_, spillTempCounter_, lastDefRegName_, cmpMap_, mem, entry>>
    /\ UNCHANGED <<raVars, laVars, ibVars>>

(***************************************************************************)
(* From the program to the machine: one function, compiled and run         *)
(***************************************************************************)
\* The functions compiled: int f(int a, int b) { if (x ? y) return 1;
\* return 0; } for every comparison ? and for x ? y one of a ? b, a ? 1,
\* 1 ? b and 0 ? 1, and int f(int a, int b) { return a && b; } and the same
\* with ||.
LowerFuncDefs ==
    LET a == [kind |-> "Identifier", name |-> "a"]
        b == [kind |-> "Identifier", name |-> "b"]
        num(n) == [kind |-> "Number", value |-> n]
        ret(e) == [kind |-> "Return", expr |-> e]
        f(stmts) == [retType |-> "int", name |-> "f", params |-> <<"a", "b">>,
                     body |-> [kind |-> "Block", stmts |-> stmts]]
    IN {f(<<[kind |-> "If",
             cond |-> [kind |-> "Binary", op |-> op, lhs |-> xy[1], rhs |-> xy[2]],
             thenStmt |-> ret(num(1)), elseStmt |-> [kind |-> "Null"]],
            ret(num(0))>>)
        : op \in {"==", "!=", "<", ">", "<=", ">="},
          xy \in {<<a, b>>, <<a, num(1)>>, <<num(1), b>>, <<num(0), num(1)>>}}
       \cup {f(<<ret([kind |-> "Binary", op |-> op, lhs |-> a, rhs |-> b])>>)
             : op \in {"&&", "||"}}

\* The values a parameter may have: 32-bit integers, among them the least
\* and the greatest, and 256, whose low byte is 0.
Values == {-2147483647 - 1, -1, 0, 1, 256, 2147483647}

\* The VRegs that the instructions of f define with an Alloca, and with
\* another instruction.
allocaVregs(f) ==
    {defReg(items(f)[i]) : i \in {j \in DOMAIN items(f) : items(f)[j].opcode = "Alloca"}}
tempVregs(f) ==
    {defReg(items(f)[i]) : i \in {j \in DOMAIN items(f) :
                                     items(f)[j].opcode \in {"Load", "ICmp"}}}

\* The allocation results of the family for f: processParameters' binding
\* of the parameters, one of the argument registers after them for every
\* alloca, and for every temporary either such a register or a spill slot,
\* as the allocator leaves them when more values are live than there are
\* registers.
LowerAllocations(f) ==
    {AllocationResult(
        [v \in DOMAIN processParametersPhys(f.paramVregs) \cup allocaVregs(f)
               \cup (tempVregs(f) \ spilled) |->
            IF v \in DOMAIN processParametersPhys(f.paramVregs)
            THEN processParametersPhys(f.paramVregs)[v]
            ELSE FirstArgReg + Len(f.paramVregs)
                 + Cardinality({w \in allocaVregs(f) \cup tempVregs(f) : w < v})],
        [v \in spilled |-> allocateSpillSlot(Cardinality({w \in spilled : w < v}))],
        <<>>)
     : spilled \in SUBSET tempVregs(f)}

\* generateLLVMIR(funcs) is about to run on one function.
LowerInit ==
    /\ ibPc = "start"
    /\ \E f \in LowerFuncDefs : funcs = <<f>>
    /\ mod = <<>>
    /\ irBuilder = [vregCounter_ |-> 0, labelCounter_ |-> 0, currentFuncName_ |-> "",
                    isMainFunction_ |-> FALSE, hasReturn_ |-> FALSE, blocks |-> <<>>,
                    currentBB_ |-> 0, scopeStack_ |-> <<EmptyMap>>,
                    loadedValues_ |-> EmptyMap, trace_ |-> <<>>, breakLabels_ |-> <<>>,
                    continueLabels_ |-> <<>>]
    /\ llvmIR = <<>>
    /\ parsed = <<>>
    /\ AllocIdle
    /\ CodeGenIdle
    /\ LiveIdle

\* generateRISCVAssembly on the module parsed from the text: a RISCVCodeGen
\* is constructed and generate() begins; precomputeAllocations leaves an
\* allocation result of the family.
GenerateRISCVAssembly ==
    /\ ibPc = "parsed"
    /\ cgPc = "idle"
    /\ Len(parsed) = 1
    /\ cgPc' = "start"
    /\ module_' = parsed
    /\ \E a \in LowerAllocations(parsed[1]) :
          funcAllocators_' = [nm \in {parsed[1].name} |-> a]
    /\ UNCHANGED <<cgFunc, cgInst, output_, allocaOffsets_, stackOffset_, totalStackSize_,
                   frameOverhead_, callSaveSize_, callArgAreaSize_, spillTempCounter_,
                   lastDefRegName_, cmpMap_, regs, mem, ip, entry>>
    /\ UNCHANGED <<raVars, laVars, ibVars>>

\* The machine enters the function: sp is the caller's, the parameters are
\* in a0, a1, ..., and nothing is known of the memory below sp.
Enter ==
    /\ cgPc = "generated"
    /\ cgPc' = "run"
    /\ ip' = 1
    /\ \E args \in [DOMAIN func.paramVregs -> Values] :
          regs' = [r \in {getRegName(id) : id \in PhysIds} |->
                     IF r = "sp" THEN [tag |-> "addr", n |-> 0]
                     ELSE IF regId(r) - FirstArgReg + 1 \in DOMAIN args
                     THEN number(args[regId(r) - FirstArgReg + 1])
                     ELSE [tag |-> "init", n |-> regId(r)]]
    /\ mem' = EmptyMap
    /\ entry' = [regs |-> regs', mem |-> mem']
    /\ UNCHANGED <<module_, funcAllocators_, cgFunc, cgInst, output_, allocaOffsets_,
                   stackOffset_, totalStackSize_, frameOverhead_, callSaveSize_,
                   callArgAreaSize_, spillTempCounter_, lastDefRegName_, cmpMap_>>
    /\ UNCHANGED <<raVars, laVars, ibVars>>

LowerNext ==
    \/ BuildModule
    \/ BuildFunction
    \/ ModuleToString
    \/ ParseModule
    \/ GenerateRISCVAssembly
    \/ Generate
    \/ GenerateFunctionBegin
    \/ GenBlockLabel
    \/ GenAlloca
    \/ GenStore
    \/ GenLoad
    \/ GenICmp
    \/ GenCondBr
    \/ GenBr
    \/ GenRet
    \/ GenerateFunctionEnd
    \/ Enter
    \/ ExecDirective
    \/ ExecWriteReg
    \/ ExecSw
    \/ ExecSb
    \/ ExecLb
    \/ ExecAlu
    \/ ExecBranch
    \/ ExecRet

SpecLower == LowerInit /\ [][LowerNext]_vars

\* The program compiled, as written: the statements of f, and the value of
\* an operand of its comparison or of its && or || when f is entered.
program == funcs[1].body.stmts
valueOf(e) ==
    IF e.kind = "Number" THEN e.value
    ELSE entry.regs[IF e.name = "a" THEN "a0" ELSE "a1"].n

\* C22 (branch fusion): in f with  if (x ? y) return 1; return 0;  the two
\* registers that the fused branch names hold, when the branch runs, the
\* values that x and y had when the ICmp was lowered, and the branch goes to
\* the true label (f returns 1) exactly when x ? y holds, wherever the
\* allocator put the operands and the result of the ICmp.
C22_FusedBranchComparesOperands ==
    Len(program) = 2 =>
        LET cmp == program[1].cond
            x == valueOf(cmp.lhs)
            y == valueOf(cmp.rhs)
            holds == CASE cmp.op = "==" -> x = y [] cmp.op = "!=" -> x # y
                       [] cmp.op = "<" -> x < y [] cmp.op = ">" -> x > y
                       [] cmp.op = "<=" -> x <= y [] cmp.op = ">=" -> x >= y
        IN /\ opcodeAtIp \in {"beq ", "bne ", "blt ", "bgt ", "ble ", "bge "} =>
                 /\ regs[output_[ip + 2]] = number(x)
                 /\ regs[output_[ip + 4]] = number(y)
           /\ cgPc = "done" => regs["a0"] = number(IF holds THEN 1 ELSE 0)

\* C23 (&& and || through the i1 slot): in f with  return a && b;  (resp.
\* a || b) the value reloaded from the result slot, which f returns, is
\* non-zero exactly when a # 0 and b # 0 (resp. a # 0 or b # 0), for all
\* 32-bit values of a and b.
C23_LogicalValueThroughSlot ==
    (Len(program) = 1 /\ cgPc = "done") =>
        LET e == program[1].expr
            a == valueOf(e.lhs)
            b == valueOf(e.rhs)
        IN /\ isNumber(regs["a0"])
           /\ regs["a0"].n # 0 <=> IF e.op = "&&" THEN a # 0 /\ b # 0 ELSE a # 0 \/ b # 0

(***************************************************************************)
(* Frame layout: a function with locals, spills and one call               *)
(***************************************************************************)
\* The locals of the caller: the types of its allocas.
LayoutLocals == {<<>>, <<"i32">>, <<"i1", "i32">>}

\* The caller of the call family with locals in front of the call: every
\* local is an alloca, whose VReg follows the def of the call, and a store of
\* a constant to it.
LayoutFunction(n, locals, args) ==
    Function(<<"f">>,
             <<[k \in DOMAIN locals |->
                  Instruction("Alloca", locals[k], vreg(DefVreg(n) + k), <<>>, "EQ", <<>>)]
               \o [k \in DOMAIN locals |->
                     Instruction("Store", locals[k], none,
                                 <<imm(1), vreg(DefVreg(n) + k)>>, "EQ", <<>>)]
               \o <<Instruction("Call", "i32", vreg(DefVreg(n)), args, "EQ", <<"g">>),
                    Instruction("RetVoid", "void", none, <<>>, "EQ", <<>>)>>>>)

LayoutInit ==
    /\ \E n \in {0, NumArgRegs + 1} :
         \E a \in CallAllocations(n), args \in ArgLists(n), locals \in LayoutLocals :
            CodeGenReady(<<[f |-> LayoutFunction(n, locals, args), a |-> a]>>)
    /\ AllocIdle
    /\ LiveIdle
    /\ BuildIdle

LayoutNext ==
    \/ Generate
    \/ GenerateFunctionBegin
    \/ GenAlloca
    \/ GenStore
    \/ GenCall
    \/ GenRet
    \/ GenerateFunctionEnd

SpecLayout == LayoutInit /\ [][LayoutNext]_vars

\* The bytes of an access of `width` bytes at offset `off` from sp.
bytesAt(off, width) == off .. off + width - 1

\* The calls of the function generated.
callsOf(f) == {items(f)[j] : j \in {i \in DOMAIN items(f) : items(f)[i].opcode = "Call"}}

\* genCall: the bytes at sp + 4(i - 8) that the stack-argument loop writes.
outgoingArgBytes ==
    UNION {UNION {bytesAt((i - NumArgRegs) * 4, 4) : i \in NumArgRegs .. Len(c.ops) - 1}
           : c \in callsOf(func)}

\* genCall: the bytes at saveOffset that the save and restore loops address.
callSaveBytes ==
    UNION {UNION {bytesAt(callArgAreaSize_ + 4 * (k - 1), 4) : k \in DOMAIN savedRegs(c)}
           : c \in callsOf(func)}

\* The VRegs whose vregToStack entry the code hands to spillSlotToSpOffset:
\* those with a negative slot (resolveUse, spillDefIfNeeded, the
\* stack-argument loop of genCall), and every register argument of a call
\* that has an entry (the register-argument loop of genCall).
spillAddressed ==
    {v \in DOMAIN alloc.vregToStack : alloc.vregToStack[v] < 0}
    \cup UNION {{c.ops[i].value :
                   i \in {j \in 1 .. Min(Len(c.ops), NumArgRegs) :
                            /\ c.ops[j].kind = "VReg"
                            /\ c.ops[j].value \notin DOMAIN alloc.vregToPhys
                            /\ c.ops[j].value \in DOMAIN alloc.vregToStack}}
                : c \in callsOf(func)}

\* The bytes addressed as spill slots.
spillSlotBytes ==
    UNION {bytesAt(spillSlotToSpOffset(alloc.vregToStack[v]), 4) : v \in spillAddressed}

\* updateStackFramePlaceholders(): the save slots of the callee-saved
\* registers, of s0 and of ra.
calleeSavedBytes ==
    UNION {bytesAt(totalStackSize_ - 12 - 4 * (k - 1), 4) : k \in DOMAIN alloc.calleeSavedRegs}
savedS0Bytes == bytesAt(totalStackSize_ - 8, 4)
savedRaBytes == bytesAt(totalStackSize_ - 4, 4)

\* genStore, genLoad: the bytes of the locals, at s0 - getAllocaOffset with
\* s0 = sp + totalStackSize_; one byte for an i1 local, four otherwise.
allocaBytes ==
    UNION {bytesAt(totalStackSize_ - getAllocaOffset(defReg(a)),
                   IF a.type = "i1" THEN 1 ELSE 4)
           : a \in {items(func)[j] :
                      j \in {i \in DOMAIN items(func) : items(func)[i].opcode = "Alloca"}}}

\* The areas of the frame.
frameAreas ==
    <<outgoingArgBytes, callSaveBytes, spillSlotBytes, calleeSavedBytes, savedS0Bytes,
      savedRaBytes, allocaBytes>>

\* The bytes that the loads and stores of the text address in the frame,
\* from sp: those of off(sp), and those of off(s0) below s0 (an operand at
\* or above s0 reads a stack parameter in the frame of the caller).
textBytes ==
    UNION {LET off == parseInt(output_[p + 3])
               width == IF output_[p] \in {"sb ", "lb "} THEN 1 ELSE 4
           IN IF output_[p + 4] = "(sp)" THEN bytesAt(off, width)
              ELSE IF off < 0 THEN bytesAt(totalStackSize_ + off, width)
              ELSE {}
           : p \in {q \in 1 .. Len(output_) - 4 :
                      /\ output_[q] \in {"sw ", "lw ", "sb ", "lb "}
                      /\ output_[q + 4] \in {"(sp)", "(s0)"}}}

\* C21 (frame layout): when f has been generated with a frame of
\* totalStackSize_ bytes, the bytes addressed for outgoing stack arguments,
\* for the save area of the call, for spill slots, for callee-saved
\* registers, for s0, for ra and for locals are pairwise disjoint, and they
\* and every byte a load or store of the text addresses in the frame lie
\* within [sp, sp + totalStackSize_).
C21_FrameAreasDisjoint ==
    cgPc = "generated" =>
        /\ \A i \in DOMAIN frameAreas : frameAreas[i] \subseteq 0 .. totalStackSize_ - 1
        /\ \A i, j \in DOMAIN frameAreas :
              i < j => frameAreas[i] \cap frameAreas[j] = {}
        /\ textBytes \subseteq 0 .. totalStackSize_ - 1

====
